---------------------------- MODULE Spec2Model ----------------------------
(***************************************************************************)
(* Model of the mcp-rally integration server: the DataTransformer (field   *)
(* names and records) and the ErrorHandler (classification of failures).   *)
(*                                                                         *)
(* A string is modelled as a tuple of one-character strings, so that the   *)
(* regular-expression rewrites of the source are computed character by     *)
(* character.                                                              *)
(***************************************************************************)
EXTENDS Integers, Sequences, FiniteSets, TLC

VARIABLES
    nmIn,       \* the field name handed to a field-name conversion
    nmOut,      \* its conversion
    nmBack,     \* the conversion of nmOut in the opposite direction
    nmPc,       \* "start" | "r2m" | "r2m2r" | "m2r" | "m2r2m"
    heap,       \* the objects and arrays that exist, by address
    heapAtCall, \* the heap as it was when the transformation was called
    recFn,      \* the transformation called, "" before the call
    recArg,     \* its argument
    recOut,     \* its return value
    recPc,      \* "idle" | "build" | "done"
    config,         \* ErrorHandler.config
    errorCounts,    \* ErrorHandler.errorCounts (a Map: type -> count)
    errorHistory,   \* ErrorHandler.errorHistory
    uuidCount,      \* the ids uuidv4 has handed out
    calls,          \* the handleError calls made
    lastError,      \* the raw failure of the last handleError call
    lastContext,    \* the context argument of that call
    lastResult,     \* what that call returned, or that it threw
    inFlight,       \* the operations that have begun and not yet failed
    handled,        \* the records handleError returned since the last
                    \* clearErrorHistory, in order (a history variable)
    lastCall,       \* the last ErrorHandler method called, with its arguments
    metrics,        \* what the last getErrorMetrics call returned
    isAuthenticated,    \* RallyClient.isAuthenticated
    clientCalls,        \* the RallyClient calls made: method and position
    httpRequests,       \* the HTTP requests the RallyClient has sent
    lastAuthenticate,   \* how the authenticate call that completed last ended
                        \* (a history variable)
    clientResult,       \* the RallyClient call that completed last
    transportKind,      \* the transport of the server: "stdio" | "sse"
    srvPc,              \* initialize: "new" | "running" | "initialized" | "failed"
    stepsRun,           \* the steps initialize has begun, in order
    handlerRegistered,  \* the call-tool request handler is set
    transportStarted,   \* transportLayer.start() has been called
    initResult,         \* how initialize settled
    tool,               \* the call-tool request in progress
    toolResult,         \* how the last call-tool request settled
    toolCalls,          \* the call-tool requests made
    httpServer,         \* SSETransport.httpServer: "none" | "listening" | "closed"
    pingInterval,       \* SSETransport.pingInterval is set
    connections,        \* SSETransport.connections: id -> [isAlive]
    stream,             \* the response stream of each connection id:
                        \* "unopened" | "open" | "broken" | "ended"
    written,            \* the streams the last step wrote to
    lateWrites,         \* the streams written to after they were ended
                        \* (a history variable)
    pending,            \* the admitted messages whose processing is awaited
    lastPost,           \* the answer to the POST that was answered last
    posts,              \* the POSTs to /mcp/message made
    transport,          \* StdioTransport.transport !== null
    stdioStart,         \* start(): "idle" | "connecting"
    stdioStop,          \* stop(): "idle" | "closing"
    lastStart,          \* how the start() that completed last ended: "none" |
                        \* "resolved" | "rejected" (a history variable)
    stoppedSince,       \* stop() was called since then (a history variable)
    starts,             \* the start() calls made
    successes,          \* the start() calls that resolved
    closes,             \* the server.close() calls made
    stopOutcome,        \* how the stop() that completed last ended
    logArrays,          \* the arrays of log entries that exist, by address
    logHistory,         \* Logger.logHistory of each logger: an address, 0 for
                        \* a logger that does not exist yet
    logs                \* the log entries made

nameVars == <<nmIn, nmOut, nmBack, nmPc>>
recVars == <<heap, heapAtCall, recFn, recArg, recOut, recPc>>
errVars == <<config, errorCounts, errorHistory, uuidCount, calls,
             lastError, lastContext, lastResult,
             inFlight, handled, lastCall, metrics>>
clientVars == <<isAuthenticated, clientCalls, httpRequests, lastAuthenticate,
                clientResult>>
serverVars == <<transportKind, srvPc, stepsRun, handlerRegistered, transportStarted,
                initResult, tool, toolResult, toolCalls>>
sseVars == <<httpServer, pingInterval, connections, stream, written, lateWrites,
             pending, lastPost, posts>>
stdioVars == <<transport, stdioStart, stdioStop, lastStart, stoppedSince, starts,
               successes, closes, stopOutcome>>
logVars == <<logArrays, logHistory, logs>>

\* ------------------------------------------------------------------------
\* Bounds
\* ------------------------------------------------------------------------

\* Longest generated field name (the named vocabulary is checked besides).
MaxNameLen == 3

\* Most properties and elements (cells) of all objects and arrays of a record.
MaxCells == 2

\* Most handleError calls made on one ErrorHandler.
MaxCalls == 1

\* Largest configured maxErrorHistory.
MaxHistory == 1

\* the operations that SpecHistory lets begin (and fail)
MaxOperations == 2

\* the RallyClient calls of SpecClient
MaxClientCalls == 3

\* the call-tool requests of SpecServer
MaxToolCalls == 1

\* the SSE connections opened and the POSTs made in SpecSSE
MaxConnections == 2
MaxPosts == 2

\* the start() calls of SpecStdio
MaxStarts == 3

\* the log calls of SpecLogger
MaxLogs == 5

\* ------------------------------------------------------------------------
\* Characters
\* ------------------------------------------------------------------------

UpperChars == <<"A","B","C","D","E","F","G","H","I","J","K","L","M","N","O","P","Q","R","S","T","U","V","W","X","Y","Z">>
LowerChars == <<"a","b","c","d","e","f","g","h","i","j","k","l","m","n","o","p","q","r","s","t","u","v","w","x","y","z">>
DigitChars == <<"0","1","2","3","4","5","6","7","8","9">>

\* [A-Z]
IsUpper(c) == \E i \in 1..Len(UpperChars) : UpperChars[i] = c
\* [a-z]
IsLower(c) == \E i \in 1..Len(LowerChars) : LowerChars[i] = c
\* [0-9]
IsDigit(c) == \E i \in 1..Len(DigitChars) : DigitChars[i] = c

\* one character of String.prototype.toLowerCase
LowerOf(c) ==
    IF IsUpper(c)
    THEN LowerChars[CHOOSE i \in 1..Len(UpperChars) : UpperChars[i] = c]
    ELSE c

\* one character of String.prototype.toUpperCase
UpperOf(c) ==
    IF IsLower(c)
    THEN UpperChars[CHOOSE i \in 1..Len(LowerChars) : LowerChars[i] = c]
    ELSE c

toLowerCase(s) == [i \in 1..Len(s) |-> LowerOf(s[i])]

\* String.prototype.startsWith
startsWith(s, p) == Len(s) >= Len(p) /\ SubSeq(s, 1, Len(p)) = p

\* String.prototype.substring(n)
substring(s, n) == SubSeq(s, n + 1, Len(s))

SetMax(S) == CHOOSE m \in S : \A k \in S : k <= m

\* ------------------------------------------------------------------------
\* DataTransformer: field names
\* ------------------------------------------------------------------------

\* The lengths k of [A-Z]+ for which /([A-Z]+)([A-Z][a-z])/ matches at i.
AcronymMatches(s, i) ==
    { k \in 1..(Len(s) - i - 1) :
        /\ \A j \in i..(i + k - 1) : IsUpper(s[j])
        /\ IsUpper(s[i + k])
        /\ IsLower(s[i + k + 1]) }

\* .replace(/([A-Z]+)([A-Z][a-z])/g, '$1-$2') from position i on: the
\* leftmost match, its [A-Z]+ greedy, then on after the match.
RECURSIVE ReplaceAcronyms(_, _)
ReplaceAcronyms(s, i) ==
    IF i > Len(s) THEN <<>>
    ELSE IF AcronymMatches(s, i) # {}
         THEN LET k == SetMax(AcronymMatches(s, i))
              IN  SubSeq(s, i, i + k - 1) \o <<"-">> \o SubSeq(s, i + k, i + k + 1)
                      \o ReplaceAcronyms(s, i + k + 2)
         ELSE <<s[i]>> \o ReplaceAcronyms(s, i + 1)

\* .replace(/([a-z0-9])([A-Z])/g, '$1-$2') from position i on.
RECURSIVE ReplaceBoundaries(_, _)
ReplaceBoundaries(s, i) ==
    IF i > Len(s) THEN <<>>
    ELSE IF i < Len(s) /\ (IsLower(s[i]) \/ IsDigit(s[i])) /\ IsUpper(s[i + 1])
         THEN <<s[i], "-", s[i + 1]>> \o ReplaceBoundaries(s, i + 2)
         ELSE <<s[i]>> \o ReplaceBoundaries(s, i + 1)

\* camelToKebab without its first rewrite (no acronym rule).
camelToKebabNoAcronymRule(str) ==
    toLowerCase(ReplaceBoundaries(str, 1))

camelToKebab(str) ==
    toLowerCase(ReplaceBoundaries(ReplaceAcronyms(str, 1), 1))

\* .replace(/-([a-z])/g, (_, letter) => letter.toUpperCase()) from i on.
RECURSIVE ReplaceHyphenLetter(_, _)
ReplaceHyphenLetter(s, i) ==
    IF i > Len(s) THEN <<>>
    ELSE IF i < Len(s) /\ s[i] = "-" /\ IsLower(s[i + 1])
         THEN <<UpperOf(s[i + 1])>> \o ReplaceHyphenLetter(s, i + 2)
         ELSE <<s[i]>> \o ReplaceHyphenLetter(s, i + 1)

kebabToCamel(str) == ReplaceHyphenLetter(toLowerCase(str), 1)

kebabToPascal(str) ==
    LET camelCase == kebabToCamel(str)
    IN  IF camelCase = <<>> THEN <<>>
        ELSE <<UpperOf(camelCase[1])>> \o Tail(camelCase)

\* The specialCases object literal of kebabToRallySpecialCase, in order.
specialCases ==
    << <<<<"f","o","r","m","a","t","t","e","d","-","i","d">>, <<"F","o","r","m","a","t","t","e","d","I","D">>>>,
       <<<<"o","b","j","e","c","t","-","i","d">>, <<"O","b","j","e","c","t","I","D">>>>,
       <<<<"r","e","f","-","o","b","j","e","c","t","-","u","u","i","d">>, <<"r","e","f","O","b","j","e","c","t","U","U","I","D">>>>,
       <<<<"r","e","f","-","o","b","j","e","c","t","-","n","a","m","e">>, <<"r","e","f","O","b","j","e","c","t","N","a","m","e">>>>,
       <<<<"r","e","f">>, <<"r","e","f">>>>,
       <<<<"t","y","p","e">>, <<"t","y","p","e">>>>,
       <<<<"p","l","a","n","-","e","s","t","i","m","a","t","e">>, <<"P","l","a","n","E","s","t","i","m","a","t","e">>>>,
       <<<<"s","c","h","e","d","u","l","e","-","s","t","a","t","e">>, <<"S","c","h","e","d","u","l","e","S","t","a","t","e">>>>,
       <<<<"l","a","s","t","-","u","p","d","a","t","e","-","d","a","t","e">>, <<"L","a","s","t","U","p","d","a","t","e","D","a","t","e">>>>,
       <<<<"c","r","e","a","t","i","o","n","-","d","a","t","e">>, <<"C","r","e","a","t","i","o","n","D","a","t","e">>>>,
       <<<<"f","o","u","n","d","-","i","n","-","b","u","i","l","d">>, <<"F","o","u","n","d","I","n","B","u","i","l","d">>>>,
       <<<<"f","i","x","e","d","-","i","n","-","b","u","i","l","d">>, <<"F","i","x","e","d","I","n","B","u","i","l","d">>>>,
       <<<<"w","o","r","k","-","p","r","o","d","u","c","t">>, <<"W","o","r","k","P","r","o","d","u","c","t">>>>,
       <<<<"t","o","-","d","o">>, <<"T","o","D","o">>>>,
       <<<<"t","o","d","o">>, <<"T","o","D","o">>>>,
       <<<<"a","p","i","-","i","n","t","e","g","r","a","t","i","o","n">>, <<"A","P","I","I","n","t","e","g","r","a","t","i","o","n">>>>,
       <<<<"a","p","i","i","n","t","e","g","r","a","t","i","o","n">>, <<"A","P","I","I","n","t","e","g","r","a","t","i","o","n">>>>,
       <<<<"c","u","s","t","o","m","-","p","r","i","o","r","i","t","y">>, <<"C","u","s","t","o","m","P","r","i","o","r","i","t","y">>>>,
       <<<<"b","u","s","i","n","e","s","s","-","v","a","l","u","e">>, <<"B","u","s","i","n","e","s","s","V","a","l","u","e">>>>,
       <<<<"m","y","-","c","u","s","t","o","m","-","f","i","e","l","d">>, <<"M","y","C","u","s","t","o","m","F","i","e","l","d">>>> >>

SpecialCaseKeys == { specialCases[i][1] : i \in 1..Len(specialCases) }
SpecialCaseValues == { specialCases[i][2] : i \in 1..Len(specialCases) }

\* specialCases is a plain object: a lookup of a key it does not own finds
\* what Object.prototype holds under that name.  The value found there is a
\* function or an object, which is truthy and is turned into text where a
\* string is built from it; the text is kept as one opaque character.
ObjectPrototypeLookup ==
    << <<<<"c","o","n","s","t","r","u","c","t","o","r">>, <<"function Object() { [native code] }">> >>,
       <<<<"_","_","p","r","o","t","o","_","_">>, <<"[object Object]">> >> >>

ObjectPrototypeKeys ==
    { ObjectPrototypeLookup[i][1] : i \in 1..Len(ObjectPrototypeLookup) }

kebabToRallySpecialCase(field) ==
    IF field \in SpecialCaseKeys
    THEN specialCases[CHOOSE i \in 1..Len(specialCases) : specialCases[i][1] = field][2]
    ELSE IF field \in ObjectPrototypeKeys
    THEN ObjectPrototypeLookup[CHOOSE i \in 1..Len(ObjectPrototypeLookup) :
                                   ObjectPrototypeLookup[i][1] = field][2]
    ELSE kebabToPascal(field)

\* rallyFieldToMcp cutting one character, not two, off a custom field.
rallyFieldToMcpShortCut(field) ==
    IF startsWith(field, <<"_">>)
    THEN <<"m","e","t","a","d","a","t","a","-">> \o camelToKebab(substring(field, 1))
    ELSE IF startsWith(field, <<"c","_">>)
    THEN <<"c","u","s","t","o","m","-">> \o camelToKebab(substring(field, 1))
    ELSE camelToKebab(field)

rallyFieldToMcp(field) ==
    IF startsWith(field, <<"_">>)
    THEN <<"m","e","t","a","d","a","t","a","-">> \o camelToKebab(substring(field, 1))
    ELSE IF startsWith(field, <<"c","_">>)
    THEN <<"c","u","s","t","o","m","-">> \o camelToKebab(substring(field, 2))
    ELSE camelToKebab(field)

mcpFieldToRally(field) ==
    IF startsWith(field, <<"m","e","t","a","d","a","t","a","-">>)
    THEN <<"_">> \o kebabToRallySpecialCase(substring(field, 9))
    ELSE IF startsWith(field, <<"c","u","s","t","o","m","-">>)
    THEN <<"c","_">> \o kebabToRallySpecialCase(substring(field, 7))
    ELSE kebabToRallySpecialCase(field)

\* The entries of getFieldMappings(): <<rallyField, mcpField>>.
getFieldMappings ==
    { <<<<"F","o","r","m","a","t","t","e","d","I","D">>, <<"f","o","r","m","a","t","t","e","d","-","i","d">>>>, <<<<"N","a","m","e">>, <<"n","a","m","e">>>>,
      <<<<"D","e","s","c","r","i","p","t","i","o","n">>, <<"d","e","s","c","r","i","p","t","i","o","n">>>>, <<<<"P","l","a","n","E","s","t","i","m","a","t","e">>, <<"p","l","a","n","-","e","s","t","i","m","a","t","e">>>>,
      <<<<"S","c","h","e","d","u","l","e","S","t","a","t","e">>, <<"s","c","h","e","d","u","l","e","-","s","t","a","t","e">>>>, <<<<"O","w","n","e","r">>, <<"o","w","n","e","r">>>>,
      <<<<"P","r","o","j","e","c","t">>, <<"p","r","o","j","e","c","t">>>>, <<<<"I","t","e","r","a","t","i","o","n">>, <<"i","t","e","r","a","t","i","o","n">>>>,
      <<<<"S","e","v","e","r","i","t","y">>, <<"s","e","v","e","r","i","t","y">>>>, <<<<"S","t","a","t","e">>, <<"s","t","a","t","e">>>>,
      <<<<"F","o","u","n","d","I","n","B","u","i","l","d">>, <<"f","o","u","n","d","-","i","n","-","b","u","i","l","d">>>>, <<<<"F","i","x","e","d","I","n","B","u","i","l","d">>, <<"f","i","x","e","d","-","i","n","-","b","u","i","l","d">>>>,
      <<<<"R","e","s","o","l","u","t","i","o","n">>, <<"r","e","s","o","l","u","t","i","o","n">>>>, <<<<"W","o","r","k","P","r","o","d","u","c","t">>, <<"w","o","r","k","-","p","r","o","d","u","c","t">>>>,
      <<<<"E","s","t","i","m","a","t","e">>, <<"e","s","t","i","m","a","t","e">>>>, <<<<"T","o","D","o">>, <<"t","o","d","o">>>>, <<<<"A","c","t","u","a","l","s">>, <<"a","c","t","u","a","l","s">>>>,
      <<<<"_","r","e","f">>, <<"m","e","t","a","d","a","t","a","-","r","e","f">>>>, <<<<"_","r","e","f","O","b","j","e","c","t","N","a","m","e">>, <<"m","e","t","a","d","a","t","a","-","r","e","f","-","o","b","j","e","c","t","-","n","a","m","e">>>>,
      <<<<"_","t","y","p","e">>, <<"m","e","t","a","d","a","t","a","-","t","y","p","e">>>>, <<<<"_","r","e","f","O","b","j","e","c","t","U","U","I","D">>, <<"m","e","t","a","d","a","t","a","-","r","e","f","-","o","b","j","e","c","t","-","u","u","i","d">>>>,
      <<<<"O","b","j","e","c","t","I","D">>, <<"o","b","j","e","c","t","-","i","d">>>>, <<<<"C","r","e","a","t","i","o","n","D","a","t","e">>, <<"c","r","e","a","t","i","o","n","-","d","a","t","e">>>>,
      <<<<"L","a","s","t","U","p","d","a","t","e","D","a","t","e">>, <<"l","a","s","t","-","u","p","d","a","t","e","-","d","a","t","e">>>> }

\* validateTransformation(originalField, transformedField, direction)
validateTransformation(originalField, transformedField, direction) ==
    IF direction = "rallyToMcp"
    THEN mcpFieldToRally(transformedField) = originalField
    ELSE rallyFieldToMcp(transformedField) = originalField


\* ------------------------------------------------------------------------
\* Field-name conversions as a state machine: a caller picks a name and
\* converts it in one direction, then converts the result back.
\* ------------------------------------------------------------------------

\* External (Rally) names: the values of specialCases, the fields of the
\* mock Rally responses and synthetic names of the three kinds.
ExternalVocabulary ==
    SpecialCaseValues \cup
    { <<"N","a","m","e">>, <<"O","w","n","e","r">>, <<"T","y","p","e">>, <<"R","e","f">>, <<"U","s","e","r","N","a","m","e">>, <<"L","e","v","e","l","1">>,
      <<"_","r","e","f">>, <<"_","t","y","p","e">>, <<"_","r","e","f","O","b","j","e","c","t","N","a","m","e">>, <<"_","r","e","f","O","b","j","e","c","t","U","U","I","D">>, <<"_","o","b","j","e","c","t","V","e","r","s","i","o","n">>,
      <<"c","_","F","o","o">>, <<"c","_","P","r","i","o","r","i","t","y">>, <<"c","_","C","u","s","t","o","m","P","r","i","o","r","i","t","y">>, <<"c","_","B","u","s","i","n","e","s","s","V","a","l","u","e">>,
      <<"c","_","M","y","C","u","s","t","o","m","F","i","e","l","d">>, <<"c","_","A","P","I","I","n","t","e","g","r","a","t","i","o","n">>, <<"c","_","C","u","s","t","o","m","F","i","e","l","d">> }

\* The field names of the tool schemas.
ToolSchemaFields ==
    { <<"n","a","m","e">>, <<"d","e","s","c","r","i","p","t","i","o","n">>, <<"p","r","o","j","e","c","t">>, <<"o","w","n","e","r">>, <<"i","t","e","r","a","t","i","o","n">>,
      <<"p","l","a","n","-","e","s","t","i","m","a","t","e">>, <<"s","c","h","e","d","u","l","e","-","s","t","a","t","e">>, <<"s","e","v","e","r","i","t","y">>, <<"p","r","i","o","r","i","t","y">>, <<"s","t","a","t","e">>,
      <<"f","o","u","n","d","-","i","n","-","b","u","i","l","d">>, <<"f","i","x","e","d","-","i","n","-","b","u","i","l","d">>, <<"w","o","r","k","-","p","r","o","d","u","c","t">>, <<"e","s","t","i","m","a","t","e">>,
      <<"t","o","d","o">>, <<"a","c","t","u","a","l","s">>, <<"p","a","r","e","n","t","-","u","s","e","r","-","s","t","o","r","y">>, <<"p","a","r","e","n","t","-","d","e","f","e","c","t">>,
      <<"t","o","d","o","-","h","o","u","r","s">>, <<"a","c","t","u","a","l","-","h","o","u","r","s">>, <<"e","s","t","i","m","a","t","e","-","h","o","u","r","s">>, <<"q","u","e","r","y">> }

\* Internal (MCP) names: the keys of specialCases, the tool-schema fields
\* and prefixed names.
InternalVocabulary ==
    SpecialCaseKeys \cup ToolSchemaFields \cup
    { <<"m","e","t","a","d","a","t","a","-","r","e","f">>, <<"m","e","t","a","d","a","t","a","-","t","y","p","e">>, <<"m","e","t","a","d","a","t","a","-","r","e","f","-","o","b","j","e","c","t","-","n","a","m","e">>,
      <<"m","e","t","a","d","a","t","a","-","r","e","f","-","o","b","j","e","c","t","-","u","u","i","d">>, <<"m","e","t","a","d","a","t","a","-","o","b","j","e","c","t","-","v","e","r","s","i","o","n">>,
      <<"c","u","s","t","o","m","-","f","o","o">>, <<"c","u","s","t","o","m","-","c","u","s","t","o","m","-","p","r","i","o","r","i","t","y">>, <<"c","u","s","t","o","m","-","b","u","s","i","n","e","s","s","-","v","a","l","u","e">>,
      <<"c","u","s","t","o","m","-","m","y","-","c","u","s","t","o","m","-","f","i","e","l","d">>, <<"c","u","s","t","o","m","-","a","p","i","-","i","n","t","e","g","r","a","t","i","o","n">> }

\* Names that are neither: what any caller may still pass.
OtherNames == ObjectPrototypeKeys \cup { <<"m","e","t","a","d","a","t","a","-","c","o","n","s","t","r","u","c","t","o","r">>, <<"m","y","-","h","t","m","l","-","f","i","e","l","d">>, <<"p","h","a","s","e","-","2","-","d","a","t","e">> }

Alphabet == { "A", "B", "a", "1", "_", "c", "-" }

GeneratedNames ==
    UNION { [1..n -> Alphabet] : n \in 0..MaxNameLen }

FieldNames ==
    ExternalVocabulary \cup InternalVocabulary \cup OtherNames \cup GeneratedNames
        \cup { m[1] : m \in getFieldMappings } \cup { m[2] : m \in getFieldMappings }

NamesInit ==
    /\ nmIn \in FieldNames
    /\ nmOut = <<>>
    /\ nmBack = <<>>
    /\ nmPc = "start"

\* rallyFieldToMcp(nmIn)
RallyFieldToMcp ==
    /\ nmPc = "start"
    /\ nmOut' = rallyFieldToMcp(nmIn)
    /\ nmPc' = "r2m"
    /\ UNCHANGED <<nmIn, nmBack>>
    /\ UNCHANGED <<recVars, errVars, clientVars, serverVars, sseVars, stdioVars, logVars>>

\* mcpFieldToRally(rallyFieldToMcp(nmIn))
BackToRally ==
    /\ nmPc = "r2m"
    /\ nmBack' = mcpFieldToRally(nmOut)
    /\ nmPc' = "r2m2r"
    /\ UNCHANGED <<nmIn, nmOut>>
    /\ UNCHANGED <<recVars, errVars, clientVars, serverVars, sseVars, stdioVars, logVars>>

\* mcpFieldToRally(nmIn)
McpFieldToRally ==
    /\ nmPc = "start"
    /\ nmOut' = mcpFieldToRally(nmIn)
    /\ nmPc' = "m2r"
    /\ UNCHANGED <<nmIn, nmBack>>
    /\ UNCHANGED <<recVars, errVars, clientVars, serverVars, sseVars, stdioVars, logVars>>

\* rallyFieldToMcp(mcpFieldToRally(nmIn))
BackToMcp ==
    /\ nmPc = "m2r"
    /\ nmBack' = rallyFieldToMcp(nmOut)
    /\ nmPc' = "m2r2m"
    /\ UNCHANGED <<nmIn, nmOut>>
    /\ UNCHANGED <<recVars, errVars, clientVars, serverVars, sseVars, stdioVars, logVars>>

NamesNext ==
    \/ RallyFieldToMcp
    \/ BackToRally
    \/ McpFieldToRally
    \/ BackToMcp


NamesIdle ==
    /\ nmIn = <<>>
    /\ nmOut = <<>>
    /\ nmBack = <<>>
    /\ nmPc = "idle"

\* ------------------------------------------------------------------------
\* DataTransformer: records
\*
\* A value is a primitive or a reference to an object or array of the heap.
\* A node of the heap is an array (vals) or an object (keys and vals, in
\* insertion order).
\* ------------------------------------------------------------------------

Prim(p) == [t |-> "prim", p |-> p, a |-> 0]
Ref(a) == [t |-> "ref", p |-> "", a |-> a]

\* null, undefined, a number, a string, a boolean
Primitives == { "null", "undefined", "5", "x", "true" }

\* The primitives stored inside objects and arrays.
CellPrimitives == { "null", "5" }

\* The property names of the records built.
RecordKeys == { <<"C","u","s","t","o","m","P","r","i","o","r","i","t","y">>, <<"c","_","P","r","i","o","r","i","t","y">>, <<"t","o","d","o">>, <<"t","o","-","d","o">> }

EmptyNode(kind) == [kind |-> kind, keys |-> <<>>, vals |-> <<>>]

\* transformed[key] = value
SetProperty(node, key, value) ==
    IF \E i \in 1..Len(node.keys) : node.keys[i] = key
    THEN [node EXCEPT !.vals[CHOOSE i \in 1..Len(node.keys) : node.keys[i] = key] = value]
    ELSE [node EXCEPT !.keys = Append(@, key), !.vals = Append(@, value)]

ConvertKey(fn, key) ==
    IF fn = "mcpToRally" THEN mcpFieldToRally(key) ELSE rallyFieldToMcp(key)

\* rallyToMcp(data) and mcpToRally(data): the heap after the call and the
\* value returned.
RECURSIVE TransformData(_, _, _)
RECURSIVE TransformCells(_, _, _, _, _)

\* The loop over the elements (data.map) or the entries (for ... of
\* Object.entries) of node src from cell i on; acc is the array or object
\* built so far.
TransformCells(fn, h, src, i, acc) ==
    IF i > Len(src.vals) THEN [h |-> h, node |-> acc]
    ELSE LET r == TransformData(fn, h, src.vals[i])
         IN  IF src.kind = "arr"
             THEN TransformCells(fn, r.h, src, i + 1,
                                 [acc EXCEPT !.vals = Append(@, r.v)])
             ELSE TransformCells(fn, r.h, src, i + 1,
                                 SetProperty(acc, ConvertKey(fn, src.keys[i]), r.v))

\* TransformData returning its argument when it is an empty object or array.
TransformDataSharingEmpty(fn, h, data) ==
    IF data.t = "prim" THEN [h |-> h, v |-> data]
    ELSE IF h[data.a].vals = <<>> THEN [h |-> h, v |-> data]
    ELSE LET r == TransformCells(fn, h, h[data.a], 1, EmptyNode(h[data.a].kind))
         IN  [h |-> Append(r.h, r.node), v |-> Ref(Len(r.h) + 1)]

TransformData(fn, h, data) ==
    IF data.t = "prim" THEN [h |-> h, v |-> data]
    ELSE LET r == TransformCells(fn, h, h[data.a], 1, EmptyNode(h[data.a].kind))
         IN  [h |-> Append(r.h, r.node), v |-> Ref(Len(r.h) + 1)]

\* The loop of transformFieldNames: the values are stored as they are.
RECURSIVE RenameEntries(_, _, _)
RenameEntries(src, i, acc) ==
    IF i > Len(src.vals) THEN acc
    ELSE RenameEntries(src, i + 1,
                       SetProperty(acc, rallyFieldToMcp(src.keys[i]), src.vals[i]))

transformFieldNames(h, data) ==
    [h |-> Append(h, RenameEntries(h[data.a], 1, EmptyNode("obj"))),
     v |-> Ref(Len(h) + 1)]

CellCount(h) ==
    LET RECURSIVE Sum(_)
        Sum(n) == IF n = 0 THEN 0 ELSE Len(h[n].vals) + Sum(n - 1)
    IN  Sum(Len(h))

\* The values a new cell of the newest node may hold: a primitive or an
\* older node (so the record has no cycle).
CellValues(h) == { Prim(p) : p \in CellPrimitives } \cup { Ref(a) : a \in 1..(Len(h) - 1) }

RecIdle ==
    /\ heap = <<>>
    /\ heapAtCall = <<>>
    /\ recFn = ""
    /\ recArg = Prim("undefined")
    /\ recOut = Prim("undefined")
    /\ recPc = "idle"

RecInit ==
    /\ heap = <<>>
    /\ heapAtCall = <<>>
    /\ recFn = ""
    /\ recArg = Prim("undefined")
    /\ recOut = Prim("undefined")
    /\ recPc = "build"

Referenced(h, a) ==
    \E n \in 1..Len(h) : \E i \in 1..Len(h[n].vals) : h[n].vals[i] = Ref(a)

\* The caller creates an empty object or array.  It builds a record from
\* the leaves up: the nodes made before the newest one are already part of
\* a larger node.
NewNode ==
    /\ recPc = "build"
    /\ Len(heap) <= MaxCells
    /\ \A a \in 1..(Len(heap) - 1) : Referenced(heap, a)
    /\ \E kind \in {"arr", "obj"} : heap' = Append(heap, EmptyNode(kind))
    /\ UNCHANGED <<heapAtCall, recFn, recArg, recOut, recPc>>
    /\ UNCHANGED <<nameVars, errVars, clientVars, serverVars, sseVars, stdioVars, logVars>>

\* The caller pushes an element onto the newest array.
PushElement ==
    /\ recPc = "build"
    /\ heap # <<>>
    /\ heap[Len(heap)].kind = "arr"
    /\ CellCount(heap) < MaxCells
    /\ \E v \in CellValues(heap) :
          heap' = [heap EXCEPT ![Len(heap)].vals = Append(@, v)]
    /\ UNCHANGED <<heapAtCall, recFn, recArg, recOut, recPc>>
    /\ UNCHANGED <<nameVars, errVars, clientVars, serverVars, sseVars, stdioVars, logVars>>

\* The caller sets a new property of the newest object.
AddProperty ==
    /\ recPc = "build"
    /\ heap # <<>>
    /\ heap[Len(heap)].kind = "obj"
    /\ CellCount(heap) < MaxCells
    /\ \E k \in RecordKeys, v \in CellValues(heap) :
          /\ \A i \in 1..Len(heap[Len(heap)].keys) : heap[Len(heap)].keys[i] # k
          /\ heap' = [heap EXCEPT ![Len(heap)] = SetProperty(@, k, v)]
    /\ UNCHANGED <<heapAtCall, recFn, recArg, recOut, recPc>>
    /\ UNCHANGED <<nameVars, errVars, clientVars, serverVars, sseVars, stdioVars, logVars>>

\* What the caller passes: a primitive, or the record it has built (rooted
\* at the newest node).
CallArguments ==
    IF heap = <<>> THEN { Prim(p) : p \in Primitives } ELSE { Ref(Len(heap)) }

\* rallyToMcp(data)
CallRallyToMcp ==
    /\ recPc = "build"
    /\ \E data \in CallArguments :
          LET r == TransformData("rallyToMcp", heap, data)
          IN  /\ heap' = r.h
              /\ recOut' = r.v
              /\ recArg' = data
    /\ heapAtCall' = heap
    /\ recFn' = "rallyToMcp"
    /\ recPc' = "done"
    /\ UNCHANGED <<nameVars, errVars, clientVars, serverVars, sseVars, stdioVars, logVars>>

\* mcpToRally(data)
CallMcpToRally ==
    /\ recPc = "build"
    /\ \E data \in CallArguments :
          LET r == TransformData("mcpToRally", heap, data)
          IN  /\ heap' = r.h
              /\ recOut' = r.v
              /\ recArg' = data
    /\ heapAtCall' = heap
    /\ recFn' = "mcpToRally"
    /\ recPc' = "done"
    /\ UNCHANGED <<nameVars, errVars, clientVars, serverVars, sseVars, stdioVars, logVars>>

\* transformFieldNames(data), data an object
CallTransformFieldNames ==
    /\ recPc = "build"
    /\ \E data \in CallArguments :
          /\ data.t = "ref"
          /\ heap[data.a].kind = "obj"
          /\ LET r == transformFieldNames(heap, data)
             IN  /\ heap' = r.h
                 /\ recOut' = r.v
                 /\ recArg' = data
    /\ heapAtCall' = heap
    /\ recFn' = "transformFieldNames"
    /\ recPc' = "done"
    /\ UNCHANGED <<nameVars, errVars, clientVars, serverVars, sseVars, stdioVars, logVars>>

RecNext ==
    \/ NewNode
    \/ PushElement
    \/ AddProperty
    \/ CallRallyToMcp
    \/ CallMcpToRally
    \/ CallTransformFieldNames

\* ------------------------------------------------------------------------
\* ErrorTypes: the tables
\* ------------------------------------------------------------------------

\* RALLY_ERROR_MAPPINGS in the order Object.values lists it: the keys that
\* are integers first, ascending, then the other keys as written.  A key
\* that is an HTTP status has name "", any other key has code 0.
RALLY_ERROR_MAPPINGS ==
    << [code |-> 401, name |-> "", type |-> "authentication_error", severity |-> "high", recovery |-> "user_intervention"],
       [code |-> 403, name |-> "", type |-> "permission_error", severity |-> "high", recovery |-> "user_intervention"],
       [code |-> 404, name |-> "", type |-> "not_found_error", severity |-> "medium", recovery |-> "fail_fast"],
       [code |-> 422, name |-> "", type |-> "validation_error", severity |-> "medium", recovery |-> "fail_fast"],
       [code |-> 429, name |-> "", type |-> "rally_rate_limit", severity |-> "medium", recovery |-> "retry_with_backoff"],
       [code |-> 500, name |-> "", type |-> "rally_server_error", severity |-> "high", recovery |-> "retry_with_backoff"],
       [code |-> 502, name |-> "", type |-> "rally_service_unavailable", severity |-> "high", recovery |-> "circuit_breaker"],
       [code |-> 503, name |-> "", type |-> "rally_service_unavailable", severity |-> "high", recovery |-> "circuit_breaker"],
       [code |-> 504, name |-> "", type |-> "connection_timeout", severity |-> "high", recovery |-> "retry_with_backoff"],
       [code |-> 0, name |-> "INVALID_KEY", type |-> "api_key_invalid", severity |-> "high", recovery |-> "user_intervention"],
       [code |-> 0, name |-> "EXPIRED_KEY", type |-> "api_key_expired", severity |-> "high", recovery |-> "user_intervention"],
       [code |-> 0, name |-> "INSUFFICIENT_PERMISSIONS", type |-> "unauthorized_operation", severity |-> "medium", recovery |-> "user_intervention"],
       [code |-> 0, name |-> "OBJECT_NOT_FOUND", type |-> "not_found_error", severity |-> "medium", recovery |-> "fail_fast"],
       [code |-> 0, name |-> "OBJECT_DELETED", type |-> "resource_deleted", severity |-> "medium", recovery |-> "fail_fast"],
       [code |-> 0, name |-> "VALIDATION_FAILED", type |-> "field_validation_error", severity |-> "medium", recovery |-> "fail_fast"],
       [code |-> 0, name |-> "INVALID_FIELD", type |-> "field_validation_error", severity |-> "medium", recovery |-> "fail_fast"],
       [code |-> 0, name |-> "RATE_LIMIT_EXCEEDED", type |-> "rally_rate_limit", severity |-> "medium", recovery |-> "retry_with_backoff"],
       [code |-> 0, name |-> "INVALID_WORKSPACE", type |-> "rally_workspace_error", severity |-> "medium", recovery |-> "user_intervention"],
       [code |-> 0, name |-> "INVALID_PROJECT", type |-> "rally_project_error", severity |-> "medium", recovery |-> "user_intervention"],
       [code |-> 0, name |-> "WORKSPACE_ACCESS_DENIED", type |-> "rally_workspace_error", severity |-> "high", recovery |-> "user_intervention"] >>

\* NETWORK_ERROR_PATTERNS, in order.  A pattern is the set of its
\* alternatives, written in lowercase (every pattern has the i flag).
NETWORK_ERROR_PATTERNS ==
    << [errorType |-> "connection_timeout", pattern |-> {"timeout", "etimedout"}],
       [errorType |-> "dns_resolution_error", pattern |-> {"enotfound", "getaddrinfo", "dns"}],
       [errorType |-> "network_error", pattern |-> {"econnrefused", "econnreset", "epipe"}],
       [errorType |-> "ssl_certificate_error", pattern |-> {"certificate", "ssl", "tls", "cert_"}] >>

\* A RecoveryOptions value; 0 stands for a field that is absent.
\* (backoffMultiplier is left out: nothing modelled reads it.)
Options(strategy, maxRetries, retryDelayMs, circuitBreakerThreshold) ==
    [strategy |-> strategy, maxRetries |-> maxRetries,
     retryDelayMs |-> retryDelayMs,
     circuitBreakerThreshold |-> circuitBreakerThreshold]

\* DEFAULT_RECOVERY_OPTIONS
DEFAULT_RECOVERY_OPTIONS ==
    [validation_error |-> Options("fail_fast", 0, 0, 0),
     schema_validation_error |-> Options("fail_fast", 0, 0, 0),
     field_validation_error |-> Options("fail_fast", 0, 0, 0),
     authentication_error |-> Options("user_intervention", 0, 0, 0),
     api_key_invalid |-> Options("user_intervention", 0, 0, 0),
     api_key_expired |-> Options("user_intervention", 0, 0, 0),
     permission_error |-> Options("user_intervention", 0, 0, 0),
     unauthorized_operation |-> Options("user_intervention", 0, 0, 0),
     rally_api_error |-> Options("retry_with_backoff", 3, 1000, 0),
     rally_server_error |-> Options("retry_with_backoff", 3, 2000, 0),
     rally_service_unavailable |-> Options("circuit_breaker", 0, 0, 5),
     rally_rate_limit |-> Options("retry_with_backoff", 5, 5000, 0),
     rally_workspace_error |-> Options("user_intervention", 0, 0, 0),
     rally_project_error |-> Options("user_intervention", 0, 0, 0),
     not_found_error |-> Options("fail_fast", 0, 0, 0),
     resource_locked |-> Options("retry_with_backoff", 3, 5000, 0),
     resource_conflict |-> Options("retry", 2, 1000, 0),
     resource_deleted |-> Options("fail_fast", 0, 0, 0),
     network_error |-> Options("retry_with_backoff", 3, 1000, 0),
     connection_timeout |-> Options("retry_with_backoff", 3, 2000, 0),
     dns_resolution_error |-> Options("circuit_breaker", 0, 0, 5),
     ssl_certificate_error |-> Options("user_intervention", 0, 0, 0),
     proxy_error |-> Options("retry_with_backoff", 3, 1000, 0),
     service_degraded |-> Options("graceful_degradation", 0, 0, 0),
     service_overload |-> Options("circuit_breaker", 0, 0, 3),
     circuit_breaker_open |-> Options("graceful_degradation", 0, 0, 0),
     resource_exhaustion |-> Options("circuit_breaker", 0, 0, 2),
     configuration_error |-> Options("user_intervention", 0, 0, 0),
     mcp_protocol_error |-> Options("fail_fast", 0, 0, 0),
     transport_error |-> Options("retry_with_backoff", 3, 1000, 0),
     serialization_error |-> Options("fail_fast", 0, 0, 0),
     data_transformation_error |-> Options("fail_fast", 0, 0, 0),
     field_mapping_error |-> Options("fail_fast", 0, 0, 0),
     data_corruption_error |-> Options("fail_fast", 0, 0, 0),
     internal_error |-> Options("retry", 1, 1000, 0),
     unexpected_error |-> Options("fail_fast", 0, 0, 0)]

\* The values of MCPErrorType.
MCPErrorType == DOMAIN DEFAULT_RECOVERY_OPTIONS

\* ------------------------------------------------------------------------
\* Raw failures: what a caller may hand to handleError
\*
\* kind      "Error" (instanceof Error), "axiosObject" (an object that is
\*           no Error and has isAxiosError === true), or a value that is
\*           neither: "null", "string", "plainObject", "bareObject" (an
\*           object without a prototype, Object.create(null))
\* resp      "none" (no response), "noStatus" (a response without status),
\*           "status" (a response with the HTTP status in status)
\* body      the data of the response: "none" (undefined), "queryResultErrors"
\*           ({QueryResult: {Errors: [...]}}), "text" (a non-empty string),
\*           "other" (an object with none of the fields read)
\* request   whether a request is attached
\* message, name   [str |-> it is a string, has |-> the lowercase words of
\*           interest it contains]
\* ------------------------------------------------------------------------

Text(words) == [str |-> TRUE, has |-> words]
NotAString == [str |-> FALSE, has |-> {}]

\* String.prototype.includes on a lowercased text
includes(text, word) == word \in text.has

\* RegExp.prototype.test: a value that is no string is tested as the text
\* of its conversion ("undefined"), which holds none of the alternatives.
test(pattern, text) == text.str /\ (pattern \cap text.has # {})

Messages ==
    { Text({}), Text({"validation"}), Text({"timeout"}), Text({"econnrefused"}),
      Text({"authentication"}), Text({"validation", "timeout"}), NotAString }

Names == { Text({}), Text({"typeerror"}), Text({"authentication"}), NotAString }

\* The mapped statuses, an unmapped 4xx, an unmapped 5xx, and a 3xx.
Statuses == { 302, 400, 401, 403, 404, 422, 429, 500, 501, 502, 503, 504 }

Bodies == { "none", "queryResultErrors", "text", "other" }

Responses ==
    { [resp |-> "none", status |-> 0, body |-> "none"],
      [resp |-> "noStatus", status |-> 0, body |-> "none"] }
        \cup { [resp |-> "status", status |-> n, body |-> b] : n \in Statuses, b \in Bodies }

Failure(kind, response, request, message, name) ==
    [kind |-> kind, resp |-> response.resp, status |-> response.status,
     body |-> response.body, request |-> request, message |-> message, name |-> name,
     code |-> NotAString]

\* The failure with error.code set (axios: 'ETIMEDOUT', 'ENOTFOUND', ...)
WithCode(failure, code) == [failure EXCEPT !.code = Text({code})]

NoResponse == [resp |-> "none", status |-> 0, body |-> "none"]

RawFailures ==
    { Failure("Error", r, FALSE, m, n) : r \in Responses, m \in Messages, n \in Names }
        \cup { Failure("axiosObject", r, q, m, NotAString) :
                  r \in Responses, q \in BOOLEAN,
                  m \in { Text({}), Text({"timeout"}), NotAString } }
        \cup { Failure(k, NoResponse, FALSE, NotAString, NotAString) :
                  k \in {"null", "string", "plainObject", "bareObject"} }
        \cup { WithCode(Failure(k, NoResponse, TRUE, m, Text({})), c) :
                  k \in {"Error", "axiosObject"},
                  m \in { Text({}), Text({"timeout"}), Text({"enotfound", "getaddrinfo"}) },
                  c \in {"etimedout", "enotfound", "econnrefused"} }

\* The context argument: omitted, without a correlationId key, with the key
\* holding undefined, with the key holding the empty string, or with the
\* caller's id.
Contexts ==
    { "omitted", "noCorrelationId", "undefinedCorrelationId", "emptyCorrelationId",
      "callerId" }

\* ------------------------------------------------------------------------
\* ErrorHandler
\* ------------------------------------------------------------------------

\* this.errorCounts.get(errorType) || 0
getErrorCount(counts, errorType) ==
    IF errorType \in DOMAIN counts THEN counts[errorType] ELSE 0

\* Object.values(RALLY_ERROR_MAPPINGS).find(mapping => mapping.type === errorType)
HasRallyMapping(errorType) ==
    \E i \in 1..Len(RALLY_ERROR_MAPPINGS) : RALLY_ERROR_MAPPINGS[i].type = errorType

RallyMappingOfType(errorType) ==
    LET first == CHOOSE i \in 1..Len(RALLY_ERROR_MAPPINGS) :
                     /\ RALLY_ERROR_MAPPINGS[i].type = errorType
                     /\ \A j \in 1..(i - 1) : RALLY_ERROR_MAPPINGS[j].type # errorType
    IN  RALLY_ERROR_MAPPINGS[first]

\* RALLY_ERROR_MAPPINGS[status.toString()]
HasStatusMapping(status) ==
    \E i \in 1..Len(RALLY_ERROR_MAPPINGS) :
        RALLY_ERROR_MAPPINGS[i].name = "" /\ RALLY_ERROR_MAPPINGS[i].code = status

StatusMapping(status) ==
    RALLY_ERROR_MAPPINGS[CHOOSE i \in 1..Len(RALLY_ERROR_MAPPINGS) :
        RALLY_ERROR_MAPPINGS[i].name = "" /\ RALLY_ERROR_MAPPINGS[i].code = status]

\* classifyError reads error.message.toLowerCase() and
\* error.name.toLowerCase(): a TypeError when either is no string.
classifyErrorThrows(error) == ~error.message.str \/ ~error.name.str

FirstNetworkPattern(message, name) ==
    CHOOSE i \in 1..Len(NETWORK_ERROR_PATTERNS) :
        /\ test(NETWORK_ERROR_PATTERNS[i].pattern, message)
              \/ test(NETWORK_ERROR_PATTERNS[i].pattern, name)
        /\ \A j \in 1..(i - 1) :
              ~(test(NETWORK_ERROR_PATTERNS[j].pattern, message)
                  \/ test(NETWORK_ERROR_PATTERNS[j].pattern, name))

classifyError(error) ==
    LET message == error.message
        name == error.name
    IN  IF includes(name, "validation") \/ includes(message, "validation")
        THEN "validation_error"
        ELSE IF \E i \in 1..Len(NETWORK_ERROR_PATTERNS) :
                    test(NETWORK_ERROR_PATTERNS[i].pattern, message)
                        \/ test(NETWORK_ERROR_PATTERNS[i].pattern, name)
        THEN NETWORK_ERROR_PATTERNS[FirstNetworkPattern(message, name)].errorType
        ELSE IF includes(name, "typeerror") THEN "data_transformation_error"
        ELSE IF includes(name, "syntaxerror") THEN "serialization_error"
        ELSE IF includes(message, "authentication") \/ includes(message, "unauthorized")
        THEN "authentication_error"
        ELSE IF includes(message, "permission") \/ includes(message, "forbidden")
        THEN "permission_error"
        ELSE "internal_error"

classifyNetworkError(message) ==
    IF \E i \in 1..Len(NETWORK_ERROR_PATTERNS) : test(NETWORK_ERROR_PATTERNS[i].pattern, message)
    THEN NETWORK_ERROR_PATTERNS[FirstNetworkPattern(message, NotAString)].errorType
    ELSE "network_error"

determineSeverity(errorType) ==
    IF HasRallyMapping(errorType) THEN RallyMappingOfType(errorType).severity
    ELSE IF errorType \in {"authentication_error", "api_key_invalid", "api_key_expired",
                           "ssl_certificate_error", "configuration_error"}
    THEN "critical"
    ELSE IF errorType \in {"rally_service_unavailable", "dns_resolution_error",
                           "resource_exhaustion"}
    THEN "high"
    ELSE IF errorType \in {"validation_error", "not_found_error", "rally_rate_limit",
                           "connection_timeout"}
    THEN "medium"
    ELSE "low"

determineRecoveryStrategy(errorType) ==
    IF HasRallyMapping(errorType)
    THEN [DEFAULT_RECOVERY_OPTIONS[errorType] EXCEPT
              !.strategy = RallyMappingOfType(errorType).recovery]
    ELSE DEFAULT_RECOVERY_OPTIONS[errorType]

getHttpErrorSeverity(status) ==
    IF status >= 500 THEN "high"
    ELSE IF status >= 400 THEN "medium"
    ELSE "low"

\* extractRallyErrorMessage: "" stands for undefined.
extractRallyErrorMessage(responseData) ==
    IF responseData = "none" THEN ""
    ELSE IF responseData = "queryResultErrors" THEN "QueryResult.Errors[0]"
    ELSE IF responseData = "text" THEN "response text"
    ELSE ""

\* The userMessages table of createUserFriendlyMessage.
userMessages ==
    [authentication_error |-> "Authentication failed. Please check your Rally API key.",
     api_key_invalid |-> "The provided Rally API key is invalid.",
     api_key_expired |-> "Your Rally API key has expired. Please renew it.",
     permission_error |-> "You do not have permission to perform this operation.",
     not_found_error |-> "The requested resource was not found.",
     validation_error |-> "The provided data is invalid.",
     rally_service_unavailable |-> "Rally service is temporarily unavailable. Please try again later.",
     rally_rate_limit |-> "Rally API rate limit exceeded. Please wait before trying again.",
     connection_timeout |-> "Connection timeout. Please check your network connection.",
     network_error |-> "Network error occurred. Please check your connection.",
     circuit_breaker_open |-> "Service is temporarily unavailable due to repeated failures.",
     configuration_error |-> "Configuration error. Please check your settings.",
     internal_error |-> "An internal error occurred. Please try again.",
     unexpected_error |-> "An unexpected error occurred."]

\* A message: its fixed text and, for `Error: ${originalMessage}`, the raw
\* message that follows it.
FixedMessage(text) == [text |-> text, raw |-> NotAString, withRaw |-> FALSE]

createUserFriendlyMessage(errorType, originalMessage) ==
    IF errorType \in DOMAIN userMessages
    THEN FixedMessage(userMessages[errorType])
    ELSE [text |-> "Error: ", raw |-> originalMessage, withRaw |-> TRUE]

\* error && error.isAxiosError === true
isAxiosError(error) == error.kind = "axiosObject"

\* The correlationId and the endpoint of errorContext: context?.correlationId
\* || uuidv4(), then overwritten by the spread of context when context has
\* the key.  "" stands for undefined.
NewUuid(n) == <<"uuid", n + 1>>
CallerId == <<"caller", 0>>
Undefined == <<"undefined", 0>>
EmptyString == <<"", 0>>

errorContextOf(context, uuids) ==
    [correlationId |->
         IF context = "callerId" THEN CallerId
         ELSE IF context = "undefinedCorrelationId" THEN Undefined
         ELSE IF context = "emptyCorrelationId" THEN EmptyString
         ELSE NewUuid(uuids),
     operation |-> "operation",
     endpoint |-> ""]

\* uuidv4() is called unless the context brings a correlationId.
UuidsAfter(context, uuids) == IF context = "callerId" THEN uuids ELSE uuids + 1

\* An MCPError.  hasCode tells whether rallyErrorCode is defined; the code
\* is the status whose decimal text rallyErrorCode is.
MCPError(type, severity, message, context, recovery, hasCode, code, rallyMessage, count) ==
    [type |-> type, severity |-> severity, message |-> message,
     context |-> context, recovery |-> recovery,
     hasRallyErrorCode |-> hasCode, rallyErrorCode |-> code,
     rallyErrorMessage |-> rallyMessage,
     occurrenceCount |-> count,
     resolvedBy |-> "", resolutionTime |-> ""]

Returned(mcpError) == [threw |-> FALSE, error |-> mcpError]

NoError ==
    MCPError("", "", FixedMessage(""), errorContextOf("omitted", 0),
             Options("", 0, 0, 0), FALSE, 0, "", 0)

\* A TypeError leaves the function.
Thrown == [threw |-> TRUE, error |-> NoError]

processError(error, context, counts) ==
    IF classifyErrorThrows(error) THEN Thrown
    ELSE LET errorType == classifyError(error)
         IN  Returned(MCPError(errorType,
                               determineSeverity(errorType),
                               createUserFriendlyMessage(errorType, error.message),
                               context,
                               determineRecoveryStrategy(errorType),
                               FALSE, 0, "",
                               getErrorCount(counts, errorType)))

\* The url of the request configuration of an axios failure.
ConfigUrl == "/slm/webservice/v2.0/artifact"

processAxiosError(error, context, counts) ==
    IF error.resp = "noStatus" THEN Thrown   \* response.status.toString()
    ELSE LET errorType ==
                 IF error.resp = "status"
                 THEN IF HasStatusMapping(error.status)
                      THEN StatusMapping(error.status).type
                      ELSE "rally_api_error"
                 ELSE IF error.request THEN classifyNetworkError(error.message)
                 ELSE "configuration_error"
             severity ==
                 IF error.resp = "status"
                 THEN IF HasStatusMapping(error.status)
                      THEN StatusMapping(error.status).severity
                      ELSE getHttpErrorSeverity(error.status)
                 ELSE IF error.request THEN "high"
                 ELSE "medium"
             ctx == IF error.resp = "status"
                    THEN [context EXCEPT !.endpoint = ConfigUrl]
                    ELSE context
         IN  Returned(MCPError(errorType,
                               severity,
                               createUserFriendlyMessage(errorType, error.message),
                               ctx,
                               determineRecoveryStrategy(errorType),
                               error.resp = "status", error.status,
                               IF error.resp = "status"
                               THEN extractRallyErrorMessage(error.body)
                               ELSE "",
                               getErrorCount(counts, errorType)))

processUnknownError(error, context, counts) ==
    IF error.kind = "bareObject" THEN Thrown   \* String(error)
    ELSE Returned(MCPError("unexpected_error",
                           "high",
                           FixedMessage("An unexpected error occurred"),
                           context,
                           DEFAULT_RECOVERY_OPTIONS["unexpected_error"],
                           FALSE, 0, "",
                           getErrorCount(counts, "unexpected_error")))

\* The dispatch of handleError: what it computes before it tracks and logs.
dispatch(error, context, counts) ==
    IF error.kind = "Error" THEN processError(error, context, counts)
    ELSE IF isAxiosError(error) THEN processAxiosError(error, context, counts)
    ELSE processUnknownError(error, context, counts)

\* trackError writing 1 instead of count + 1
trackErrorOverwriting(counts, mcpError) ==
    [t \in DOMAIN counts \cup {mcpError.type} |->
        IF t = mcpError.type THEN 1 ELSE counts[t]]

\* trackError
trackError(counts, mcpError) ==
    [t \in DOMAIN counts \cup {mcpError.type} |->
        IF t = mcpError.type THEN getErrorCount(counts, t) + 1 ELSE counts[t]]

\* Array.prototype.slice(-n): the last n elements, the whole array for n = 0.
sliceLast(history, n) ==
    IF n = 0 \/ n >= Len(history) THEN history
    ELSE SubSeq(history, Len(history) - n + 1, Len(history))

\* addToHistory
addToHistory(history, mcpError, maxErrorHistory) ==
    LET pushed == Append(history, mcpError)
    IN  IF Len(pushed) > maxErrorHistory
        THEN sliceLast(pushed, maxErrorHistory)
        ELSE pushed

Configs ==
    [enableErrorAggregation : BOOLEAN, maxErrorHistory : 0..MaxHistory]

NoFailure == Failure("null", NoResponse, FALSE, NotAString, NotAString)

\* A call of an ErrorHandler method: its name, and the correlationId and
\* resolvedBy arguments of resolveError.
Call(op, id, by) == [op |-> op, id |-> id, by |-> by]
NoCall == Call("none", Undefined, "")

\* resolveError marking the newest record, whatever its correlationId
resolveErrorNewest(history, correlationId, resolvedBy) ==
    IF history = << >> THEN history
    ELSE [history EXCEPT ![Len(history)].resolvedBy = resolvedBy,
                         ![Len(history)].resolutionTime = "now"]

\* resolveError: the first record with that correlationId gets resolvedBy
\* and resolutionTime ("now" stands for new Date()).
resolveError(history, correlationId, resolvedBy) ==
    IF \E i \in 1..Len(history) : history[i].context.correlationId = correlationId
    THEN LET found == CHOOSE i \in 1..Len(history) :
                 /\ history[i].context.correlationId = correlationId
                 /\ \A j \in 1..(i - 1) :
                       history[j].context.correlationId # correlationId
         IN  [history EXCEPT ![found].resolvedBy = resolvedBy,
                             ![found].resolutionTime = "now"]
    ELSE history

\* The number of records of a history that satisfy a test.
CountOf(history, Test(_)) == Cardinality({ i \in 1..Len(history) : Test(history[i]) })

\* getErrorMetrics.  Every stored record counts as recent (no call sequence
\* here lasts 24 hours); errorPatterns is given as the set of its entries.
getErrorMetrics(history, counts) ==
    [totalErrors |-> Len(history),
     errorsByType |->
         [t \in { history[i].type : i \in 1..Len(history) } |->
             LET IsOfType(e) == e.type = t IN CountOf(history, IsOfType)],
     errorsBySeverity |->
         [v \in { history[i].severity : i \in 1..Len(history) } |->
             LET IsOfSeverity(e) == e.severity = v IN CountOf(history, IsOfSeverity)],
     errorPatterns |->
         { [type |-> t, count |-> counts[t], trend |-> "stable"] : t \in DOMAIN counts }]

NoMetrics ==
    [totalErrors |-> 0, errorsByType |-> << >>, errorsBySeverity |-> << >>,
     errorPatterns |-> {}]

\* The fields of a new ErrorHandler and of the bookkeeping around it.
Constructed ==
    /\ errorCounts = << >>
    /\ errorHistory = << >>
    /\ uuidCount = 0
    /\ calls = 0
    /\ lastError = NoFailure
    /\ lastContext = "omitted"
    /\ lastResult = Returned(NoError)
    /\ inFlight = {}
    /\ handled = << >>
    /\ lastCall = NoCall
    /\ metrics = NoMetrics

ErrIdle ==
    /\ config = [enableErrorAggregation |-> FALSE, maxErrorHistory |-> 0]
    /\ Constructed

\* new ErrorHandler(config, logger)
ErrInit ==
    /\ config \in Configs
    /\ Constructed

\* The body of handleError(error, operation, context)
handleErrorStep(error, operation, context) ==
    LET r == dispatch(error,
                      [errorContextOf(context, uuidCount) EXCEPT !.operation = operation],
                      errorCounts)
    IN  /\ lastError' = error
        /\ lastContext' = context
        /\ lastResult' = r
        /\ lastCall' = Call("handleError", Undefined, "")
        /\ uuidCount' = UuidsAfter(context, uuidCount)
        /\ calls' = calls + 1
        /\ IF r.threw
           THEN UNCHANGED <<errorCounts, errorHistory, handled>>
           ELSE /\ errorCounts' = trackError(errorCounts, r.error)
                /\ errorHistory' =
                      IF config.enableErrorAggregation
                      THEN addToHistory(errorHistory, r.error, config.maxErrorHistory)
                      ELSE errorHistory
                /\ handled' = Append(handled, r.error)
        /\ UNCHANGED config

\* handleError(error, operation, context)
HandleError ==
    /\ calls < MaxCalls
    /\ \E error \in RawFailures, context \in Contexts :
          handleErrorStep(error, "operation", context)
    /\ UNCHANGED <<inFlight, metrics>>
    /\ UNCHANGED <<nameVars, recVars, clientVars, serverVars, sseVars, stdioVars, logVars>>

ErrNext == HandleError

\* ------------------------------------------------------------------------
\* ErrorHandler over several operations: handleError for operations that
\* are in flight together, resolveError, getErrorMetrics, clearErrorHistory
\* ------------------------------------------------------------------------

Operations == { "create", "query" }

\* One failure of each kind of outcome: two categories, and a TypeError.
SampleFailures ==
    { Failure("axiosObject", [resp |-> "status", status |-> 401, body |-> "none"],
              FALSE, Text({}), NotAString),
      Failure("axiosObject", [resp |-> "status", status |-> 404, body |-> "none"],
              FALSE, Text({}), NotAString),
      Failure("bareObject", NoResponse, FALSE, NotAString, NotAString) }

SampleContexts == { "omitted", "callerId" }

\* The correlationId arguments of resolveError: the caller's id, a generated
\* id, and an id no record has.
ResolveIds == { CallerId, NewUuid(0), <<"unknown", 0>> }

\* An operation begins (a tool call, a Rally request).
BeginOperation(op) ==
    /\ op \notin inFlight
    /\ calls + Cardinality(inFlight) < MaxOperations
    /\ inFlight' = inFlight \cup {op}
    /\ lastCall' = NoCall
    /\ UNCHANGED <<config, errorCounts, errorHistory, uuidCount, calls,
                   lastError, lastContext, lastResult, handled, metrics>>
    /\ UNCHANGED <<nameVars, recVars, clientVars, serverVars, sseVars, stdioVars, logVars>>

\* An operation in flight fails and hands its failure to handleError, which
\* runs to its end: it is synchronous.
FailOperation(op) ==
    /\ op \in inFlight
    /\ \E error \in SampleFailures, context \in SampleContexts :
          handleErrorStep(error, op, context)
    /\ inFlight' = inFlight \ {op}
    /\ UNCHANGED metrics
    /\ UNCHANGED <<nameVars, recVars, clientVars, serverVars, sseVars, stdioVars, logVars>>

\* resolveError(correlationId, resolvedBy)
ResolveError ==
    /\ \E id \in ResolveIds :
          /\ errorHistory' = resolveError(errorHistory, id, "operator")
          /\ lastCall' = Call("resolveError", id, "operator")
    /\ UNCHANGED <<config, errorCounts, uuidCount, calls,
                   lastError, lastContext, lastResult, inFlight, handled, metrics>>
    /\ UNCHANGED <<nameVars, recVars, clientVars, serverVars, sseVars, stdioVars, logVars>>

\* getErrorMetrics()
GetErrorMetrics ==
    /\ metrics' = getErrorMetrics(errorHistory, errorCounts)
    /\ lastCall' = Call("getErrorMetrics", Undefined, "")
    /\ UNCHANGED <<config, errorCounts, errorHistory, uuidCount, calls,
                   lastError, lastContext, lastResult, inFlight, handled>>
    /\ UNCHANGED <<nameVars, recVars, clientVars, serverVars, sseVars, stdioVars, logVars>>

\* clearErrorHistory()
ClearErrorHistory ==
    /\ errorHistory' = << >>
    /\ errorCounts' = << >>
    /\ handled' = << >>
    /\ lastCall' = Call("clearErrorHistory", Undefined, "")
    /\ UNCHANGED <<config, uuidCount, calls,
                   lastError, lastContext, lastResult, inFlight, metrics>>
    /\ UNCHANGED <<nameVars, recVars, clientVars, serverVars, sseVars, stdioVars, logVars>>

HistoryNext ==
    \/ \E op \in Operations : BeginOperation(op)
    \/ \E op \in Operations : FailOperation(op)
    \/ ResolveError
    \/ GetErrorMetrics
    \/ ClearErrorHistory

\* ------------------------------------------------------------------------
\* RallyClient
\* ------------------------------------------------------------------------

\* What an HTTP call of the client rejects with.
\* kind    "AxiosError" (instanceof AxiosError), "axiosObject" (a plain
\*         object flagged isAxiosError), "Error" (another Error)
\* code    error.code, "" when there is none
\* status  error.response.status, 0 when there is no response
HttpError(kind, code, status) == [kind |-> kind, code |-> code, status |-> status]

HttpStatuses == { 401, 403, 404, 422, 500 }

HttpErrors ==
    { HttpError(k, "", n) : k \in {"AxiosError", "axiosObject"}, n \in HttpStatuses }
        \cup { HttpError(k, c, 0) : k \in {"AxiosError", "axiosObject"},
                                    c \in {"ECONNREFUSED", "ENOTFOUND", "ECONNABORTED"} }
        \cup { HttpError("Error", "", 0) }

\* An error made inside the client (new Error(...)).
ClientError == HttpError("Error", "", 0)

\* The MCPError of the client: the message is `${context}: ${text}`; when
\* withRaw, the text is the message of the error handled.
ClientMCPError(type, context, text, withRaw, hasCode, code) ==
    [type |-> type, context |-> context, text |-> text, withRaw |-> withRaw,
     hasRallyErrorCode |-> hasCode, rallyErrorCode |-> code]

NoClientError == ClientMCPError("", "", "", FALSE, FALSE, 0)

\* new Error('Rally client is not authenticated. Call authenticate() first.')
NotAuthenticated ==
    ClientMCPError("Error", "",
                   "Rally client is not authenticated. Call authenticate() first.",
                   FALSE, FALSE, 0)

\* RallyClient.handleError(error, context)
RallyClientHandleError(error, context) ==
    IF error.kind = "AxiosError"
    THEN IF error.code = "ECONNREFUSED" \/ error.code = "ENOTFOUND"
         THEN ClientMCPError("network_error", context, "Network connection failed",
                             FALSE, FALSE, 0)
         ELSE IF error.status # 0
         THEN CASE error.status = 401 ->
                      ClientMCPError("authentication_error", context,
                          "Invalid API credentials. Check that your Rally API key is correct and has the required permissions.",
                          FALSE, TRUE, error.status)
                [] error.status = 403 ->
                      ClientMCPError("permission_error", context, "Permission denied",
                                     FALSE, TRUE, error.status)
                [] error.status = 404 ->
                      ClientMCPError("not_found_error", context, "Resource not found",
                                     FALSE, TRUE, error.status)
                [] error.status = 422 ->
                      ClientMCPError("validation_error", context, "Validation failed",
                                     FALSE, TRUE, error.status)
                [] OTHER ->
                      ClientMCPError("rally_api_error", context, "Rally API error (status)",
                                     FALSE, TRUE, error.status)
         ELSE ClientMCPError("network_error", context, "", TRUE, FALSE, 0)
    ELSE ClientMCPError("rally_api_error", context, "", TRUE, FALSE, 0)

\* ensureAuthenticated letting every call pass
ensureAuthenticatedAlways(authenticated) == TRUE

\* ensureAuthenticated: whether the call may go on (it throws otherwise)
ensureAuthenticated(authenticated) == authenticated

ClientMethods == { "create", "get", "update", "query" }

\* The context text handed to handleError by each method.
FailureContext(method) ==
    CASE method = "authenticate" -> "Authentication failed"
      [] method = "create" -> "Failed to create"
      [] method = "get" -> "Failed to get"
      [] method = "update" -> "Failed to update"
      [] method = "query" -> "Failed to query"

CallIds == 1..MaxClientCalls

\* A call: "idle" (not made), "validating" (authenticate awaits
\* validateApiKey), "requesting" (awaits the HTTP response), "resolved",
\* "rejected".
ClientCall(method, phase, authAtCall) ==
    [method |-> method, phase |-> phase, authAtCall |-> authAtCall]

IdleCall == ClientCall("", "idle", FALSE)

\* The call that completed: its outcome and what it rejected with (the raw
\* error and its translation).
Completed(id, call, outcome, raw, error) ==
    [id |-> id, method |-> call.method, authAtCall |-> call.authAtCall,
     outcome |-> outcome, raw |-> raw, error |-> error]

NothingCompleted == Completed(0, IdleCall, "", ClientError, NoClientError)

ClientIdle ==
    /\ isAuthenticated = FALSE
    /\ clientCalls = [id \in CallIds |-> IdleCall]
    /\ httpRequests = 0
    /\ lastAuthenticate = "none"
    /\ clientResult = NothingCompleted

\* new RallyClient(securityManager, performanceManager)
ClientInit == ClientIdle

\* The call id is the next one to be made.
NextCall(id) ==
    /\ clientCalls[id].phase = "idle"
    /\ \A j \in 1..(id - 1) : clientCalls[j].phase # "idle"

\* authenticate(apiKey), up to its await of validateApiKey
Authenticate(id) ==
    /\ NextCall(id)
    /\ clientCalls' = [clientCalls EXCEPT
                           ![id] = ClientCall("authenticate", "validating", isAuthenticated)]
    /\ UNCHANGED <<isAuthenticated, httpRequests, lastAuthenticate, clientResult>>
    /\ UNCHANGED <<nameVars, recVars, errVars, serverVars, sseVars, stdioVars, logVars>>

\* validateApiKey settles: the request to /workspace goes out, or the catch
\* block runs.
KeyValidated(id) ==
    /\ clientCalls[id].phase = "validating"
    /\ \E valid \in BOOLEAN :
          IF valid
          THEN /\ clientCalls' = [clientCalls EXCEPT ![id].phase = "requesting"]
               /\ httpRequests' = httpRequests + 1
               /\ UNCHANGED <<isAuthenticated, lastAuthenticate, clientResult>>
          ELSE /\ isAuthenticated' = FALSE
               /\ clientCalls' = [clientCalls EXCEPT ![id].phase = "rejected"]
               /\ lastAuthenticate' = "failed"
               /\ clientResult' =
                     Completed(id, clientCalls[id], "rejected", ClientError,
                               RallyClientHandleError(ClientError, FailureContext("authenticate")))
               /\ UNCHANGED httpRequests
    /\ UNCHANGED <<nameVars, recVars, errVars, serverVars, sseVars, stdioVars, logVars>>

\* What the HTTP call of authenticate settles with: status 200 with data, a
\* response that is not that, or a rejection.
AuthResponse(id) ==
    /\ clientCalls[id].phase = "requesting"
    /\ clientCalls[id].method = "authenticate"
    /\ \/ /\ isAuthenticated' = TRUE
          /\ clientCalls' = [clientCalls EXCEPT ![id].phase = "resolved"]
          /\ lastAuthenticate' = "succeeded"
          /\ clientResult' =
                Completed(id, clientCalls[id], "resolved", ClientError, NoClientError)
       \/ \E error \in HttpErrors \cup {ClientError} :
             \* the call rejects, or the response is not 200 with data and
             \* 'Authentication response was invalid' is thrown
             /\ isAuthenticated' = FALSE
             /\ clientCalls' = [clientCalls EXCEPT ![id].phase = "rejected"]
             /\ lastAuthenticate' = "failed"
             /\ clientResult' =
                   Completed(id, clientCalls[id], "rejected", error,
                             RallyClientHandleError(error, FailureContext("authenticate")))
    /\ UNCHANGED httpRequests
    /\ UNCHANGED <<nameVars, recVars, errVars, serverVars, sseVars, stdioVars, logVars>>

\* create / get / update / query, up to the await of the HTTP call
CallOperation(id) ==
    /\ NextCall(id)
    /\ \E method \in ClientMethods, knownArtifact \in BOOLEAN :
          LET call == ClientCall(method, "requesting", isAuthenticated)
          IN  IF ~ensureAuthenticated(isAuthenticated)
              THEN \* ensureAuthenticated throws
                   /\ clientCalls' = [clientCalls EXCEPT ![id] = [call EXCEPT !.phase = "rejected"]]
                   /\ clientResult' = Completed(id, call, "rejected", ClientError,
                                                NotAuthenticated)
                   /\ UNCHANGED httpRequests
              ELSE IF ~knownArtifact
              THEN \* getEndpointForArtifact throws
                   /\ clientCalls' = [clientCalls EXCEPT ![id] = [call EXCEPT !.phase = "rejected"]]
                   /\ clientResult' =
                         Completed(id, call, "rejected", ClientError,
                                   RallyClientHandleError(ClientError, FailureContext(method)))
                   /\ UNCHANGED httpRequests
              ELSE /\ clientCalls' = [clientCalls EXCEPT ![id] = call]
                   /\ httpRequests' = httpRequests + 1
                   /\ UNCHANGED clientResult
    /\ UNCHANGED <<isAuthenticated, lastAuthenticate>>
    /\ UNCHANGED <<nameVars, recVars, errVars, serverVars, sseVars, stdioVars, logVars>>

\* What the HTTP call of an operation settles with: a valid Rally response,
\* a response validateRallyResponse throws on, or a rejection.
OperationResponse(id) ==
    /\ clientCalls[id].phase = "requesting"
    /\ clientCalls[id].method \in ClientMethods
    /\ LET call == clientCalls[id]
       IN  \/ /\ clientCalls' = [clientCalls EXCEPT ![id].phase = "resolved"]
              /\ clientResult' =
                    Completed(id, call, "resolved", ClientError, NoClientError)
           \/ \E error \in HttpErrors \cup {ClientError} :
                 \* the call rejects, or validateRallyResponse throws
                 /\ clientCalls' = [clientCalls EXCEPT ![id].phase = "rejected"]
                 /\ clientResult' =
                       Completed(id, call, "rejected", error,
                                 RallyClientHandleError(error, FailureContext(call.method)))
    /\ UNCHANGED <<isAuthenticated, httpRequests, lastAuthenticate>>
    /\ UNCHANGED <<nameVars, recVars, errVars, serverVars, sseVars, stdioVars, logVars>>

ClientNext ==
    \/ \E id \in CallIds : Authenticate(id)
    \/ \E id \in CallIds : KeyValidated(id)
    \/ \E id \in CallIds : AuthResponse(id)
    \/ \E id \in CallIds : CallOperation(id)
    \/ \E id \in CallIds : OperationResponse(id)

\* ------------------------------------------------------------------------
\* MCPRallyServer
\* ------------------------------------------------------------------------

\* Whether sub occurs in seq (String.prototype.includes)
Contains(seq, sub) ==
    \E i \in 0..(Len(seq) - Len(sub)) : SubSeq(seq, i + 1, i + Len(sub)) = sub

\* A value that is thrown or that a promise rejects with.
\* kind     "Error", "object" (a plain object), "bareObject" (an object
\*          without prototype), "string", "null"
\* type     its type property, "" when it has none
\* hasMessage, message   its message property (for a string: the string)
Value(kind, type, hasMessage, message) ==
    [kind |-> kind, type |-> type, hasMessage |-> hasMessage, message |-> message]

ErrorOf(message) == Value("Error", "", TRUE, message)

\* The TypeError of String(error) on an object without prototype
TypeErrorValue == ErrorOf(<<"C","a","n","n","o","t"," ","c","o","n","v","e","r","t"," ","o","b","j","e","c","t"," ","t","o"," ","p","r","i","m","i","t","i","v","e"," ","v","a","l","u","e">>)

NoValue == Value("null", "", FALSE, << >>)

\* String(error)
StringOf(error) ==
    CASE error.kind = "string" -> error.message
      [] error.kind = "null" -> <<"n","u","l","l">>
      [] error.kind = "object" -> <<"[","o","b","j","e","c","t"," ","O","b","j","e","c","t","]">>
      [] error.kind = "Error" -> <<"E","r","r","o","r",":"," ">> \o error.message

\* `${x}` of a message property that may be undefined
TemplateOf(error) == IF error.hasMessage THEN error.message ELSE <<"u","n","d","e","f","i","n","e","d">>

ReturnedValue(v) == [threw |-> FALSE, value |-> v]
ThrewTypeError == [threw |-> TRUE, value |-> TypeErrorValue]

\* handleToolError(error, toolName): the MCPError it returns, or the
\* TypeError that leaves it
handleToolError(error, toolName) ==
    IF error.kind \in {"Error", "object", "bareObject"} /\ error.type # ""
    THEN ReturnedValue(error)
    ELSE IF error.kind = "bareObject" THEN ThrewTypeError
    ELSE LET errorMessage == IF error.kind = "Error" THEN error.message
                             ELSE StringOf(error)
             errorType ==
                 IF Contains(errorMessage, <<"n","o","t"," ","f","o","u","n","d">>) \/ Contains(errorMessage, <<"4","0","4">>)
                 THEN "not_found_error"
                 ELSE IF Contains(errorMessage, <<"a","u","t","h","e","n","t","i","c","a","t","i","o","n">>)
                          \/ Contains(errorMessage, <<"4","0","1">>)
                 THEN "authentication_error"
                 ELSE IF Contains(errorMessage, <<"p","e","r","m","i","s","s","i","o","n">>) \/ Contains(errorMessage, <<"4","0","3">>)
                 THEN "permission_error"
                 ELSE IF Contains(errorMessage, <<"v","a","l","i","d","a","t","i","o","n">>)
                          \/ Contains(errorMessage, <<"i","n","v","a","l","i","d">>)
                 THEN "validation_error"
                 ELSE IF Contains(errorMessage, <<"n","e","t","w","o","r","k">>)
                          \/ Contains(errorMessage, <<"c","o","n","n","e","c","t","i","o","n">>)
                 THEN "network_error"
                 ELSE "rally_api_error"
         IN  ReturnedValue(Value("object", errorType, TRUE,
                                 <<"T","o","o","l"," ">> \o toolName \o <<" ","f","a","i","l","e","d",":"," ">> \o errorMessage))

\* The names of the switch of the request handler.
ToolNames ==
    { <<"g","e","t","_","u","s","e","r","_","s","t","o","r","y">>, <<"c","r","e","a","t","e","_","u","s","e","r","_","s","t","o","r","y">>, <<"u","p","d","a","t","e","_","u","s","e","r","_","s","t","o","r","y">>, <<"q","u","e","r","y","_","u","s","e","r","_","s","t","o","r","i","e","s">>,
      <<"g","e","t","_","d","e","f","e","c","t">>, <<"c","r","e","a","t","e","_","d","e","f","e","c","t">>, <<"u","p","d","a","t","e","_","d","e","f","e","c","t">>, <<"q","u","e","r","y","_","d","e","f","e","c","t","s">>,
      <<"u","p","d","a","t","e","_","d","e","f","e","c","t","_","s","t","a","t","e">>, <<"g","e","t","_","t","a","s","k">>, <<"c","r","e","a","t","e","_","t","a","s","k">>, <<"u","p","d","a","t","e","_","t","a","s","k">>,
      <<"q","u","e","r","y","_","t","a","s","k","s">>, <<"q","u","e","r","y","_","a","l","l","_","a","r","t","i","f","a","c","t","s">> }

\* Names the switch does not know.
OtherToolNames == { <<"u","n","k","n","o","w","n","_","t","o","o","l">>, <<>> }

\* The response of the catch block without its isError flag
errorResponseUnflagged(name, mcpError) ==
    [content |-> << [type |-> "text",
                     text |-> <<"E","r","r","o","r"," ","e","x","e","c","u","t","i","n","g"," ">> \o name \o <<":"," ">> \o TemplateOf(mcpError)] >>,
     isError |-> FALSE]

\* The response of the catch block of the request handler
errorResponse(name, mcpError) ==
    [content |-> << [type |-> "text",
                     text |-> <<"E","r","r","o","r"," ","e","x","e","c","u","t","i","n","g"," ">> \o name \o <<":"," ">> \o TemplateOf(mcpError)] >>,
     isError |-> TRUE]

\* The result of a tool that succeeded.
toolSuccess(name) ==
    [content |-> << [type |-> "text", text |-> <<"R","e","s","u","l","t"," ","o","f"," ">> \o name] >>,
     isError |-> FALSE]

\* How a call-tool request settled: thrown and error tell what the try
\* block of the request handler threw, if anything.
Settled(name, outcome, response, thrown, error) ==
    [name |-> name, outcome |-> outcome, response |-> response, thrown |-> thrown,
     error |-> error]

NoToolResponse == [content |-> << >>, isError |-> FALSE]
NotSettled == Settled(<< >>, "", NoToolResponse, FALSE, NoValue)

\* The catch block of a tool's own handler: throw this.handleToolError(...)
innerCatch(error, toolName) == handleToolError(error, toolName).value

\* The catch block of the request handler: the response it returns, or the
\* rejection when handleToolError throws
outerCatch(error, name) ==
    LET r == handleToolError(error, name)
    IN  IF r.threw THEN Settled(name, "rejected", NoToolResponse, TRUE, error)
        ELSE Settled(name, "resolved", errorResponse(name, r.value), TRUE, error)

\* JSON.stringify(error, null, 2) of an object whose only property, if
\* any, is message
JSONOf(error) ==
    IF error.hasMessage THEN <<"{","\n"," "," ","\"","m","e","s","s","a","g","e","\"",":"," ","\"">> \o error.message \o <<"\"","\n","}">>
    ELSE <<"{","}">>

\* The errorMessage of the catch block of initialize
initializeErrorMessage(error) ==
    CASE error.kind = "Error" -> error.message
      [] error.kind = "string" -> error.message
      [] error.kind \in {"object", "bareObject"} ->
            IF error.hasMessage /\ error.message # << >> THEN error.message
            ELSE JSONOf(error)
      [] OTHER -> StringOf(error)

\* The error initialize rejects with
initializeError(error) ==
    ErrorOf(<<"F","a","i","l","e","d"," ","t","o"," ","i","n","i","t","i","a","l","i","z","e"," ","M","C","P"," ","R","a","l","l","y"," ","s","e","r","v","e","r",":"," ">> \o initializeErrorMessage(error))

\* The steps of initialize with the handlers set up before the
\* authentication
initializeStepsHandlersFirst ==
    << "validateEnvironment", "validateApiKey", "setupToolHandlers", "authenticate",
       "start" >>

\* The steps of initialize, in the order of its statements; reading
\* RALLY_API_KEY is the beginning of "authenticate".
initializeSteps ==
    << "validateEnvironment", "validateApiKey", "authenticate", "setupToolHandlers",
       "start" >>

\* What a step can throw or reject with.
StepFailures(step) ==
    { ErrorOf(<<"T","r","a","n","s","p","o","r","t"," ","s","t","a","r","t","u","p"," ","f","a","i","l","e","d">>),
      Value("object", "authentication_error", TRUE, <<"F","a","i","l","e","d"," ","t","o"," ","a","u","t","h","e","n","t","i","c","a","t","e",":"," ","U","n","a","u","t","h","o","r","i","z","e","d">>),
      Value("string", "", TRUE, <<"t","i","m","e","o","u","t">>),
      Value("object", "", FALSE, << >>),
      Value("object", "", TRUE, << >>),
      Value("bareObject", "", FALSE, << >>),
      NoValue }
    \cup IF step = "authenticate"
         THEN { ErrorOf(<<"R","A","L","L","Y","_","A","P","I","_","K","E","Y"," ","e","n","v","i","r","o","n","m","e","n","t"," ","v","a","r","i","a","b","l","e"," ","i","s"," ","r","e","q","u","i","r","e","d">>) }
         ELSE { }

Transports == { "stdio", "sse" }

Initialized(outcome, step, cause, error) ==
    [outcome |-> outcome, step |-> step, cause |-> cause, error |-> error]

NotInitialized == Initialized("", "", NoValue, NoValue)

IdleTool == [pc |-> "idle", name |-> << >>]

ServerIdle ==
    /\ transportKind = "stdio"
    /\ srvPc = "new"
    /\ stepsRun = << >>
    /\ handlerRegistered = FALSE
    /\ transportStarted = FALSE
    /\ initResult = NotInitialized
    /\ tool = IdleTool
    /\ toolResult = NotSettled
    /\ toolCalls = 0

\* new MCPRallyServer(transportLayer, ...)
ServerInit ==
    /\ transportKind \in Transports
    /\ srvPc = "new"
    /\ stepsRun = << >>
    /\ handlerRegistered = FALSE
    /\ transportStarted = FALSE
    /\ initResult = NotInitialized
    /\ tool = IdleTool
    /\ toolResult = NotSettled
    /\ toolCalls = 0

\* What calling a step does before it settles.
BeginStep(step) ==
    /\ stepsRun' = Append(stepsRun, step)
    /\ transportStarted' = (transportStarted \/ step = "start")

\* initialize() is called.
Initialize ==
    /\ srvPc = "new"
    /\ srvPc' = "running"
    /\ BeginStep(initializeSteps[1])
    /\ UNCHANGED <<transportKind, handlerRegistered, initResult, tool, toolResult,
                   toolCalls>>
    /\ UNCHANGED <<nameVars, recVars, errVars, clientVars, sseVars, stdioVars, logVars>>

\* The step in progress returns or resolves; the next statement runs.
StepSucceeds ==
    /\ srvPc = "running"
    /\ LET n == Len(stepsRun)
           step == stepsRun[n]
       IN  /\ handlerRegistered' =
                  (handlerRegistered
                       \/ (step = "setupToolHandlers" /\ transportKind = "stdio"))
           /\ IF n = Len(initializeSteps)
              THEN /\ srvPc' = "initialized"
                   /\ initResult' = Initialized("resolved", "", NoValue, NoValue)
                   /\ UNCHANGED <<stepsRun, transportStarted>>
              ELSE /\ BeginStep(initializeSteps[n + 1])
                   /\ UNCHANGED <<srvPc, initResult>>
    /\ UNCHANGED <<transportKind, tool, toolResult, toolCalls>>
    /\ UNCHANGED <<nameVars, recVars, errVars, clientVars, sseVars, stdioVars, logVars>>

\* The step in progress throws or rejects; the catch block runs.
StepFails ==
    /\ srvPc = "running"
    /\ LET step == stepsRun[Len(stepsRun)]
       IN  \E error \in StepFailures(step) :
               initResult' = Initialized("rejected", step, error, initializeError(error))
    /\ srvPc' = "failed"
    /\ UNCHANGED <<transportKind, stepsRun, handlerRegistered, transportStarted, tool,
                   toolResult, toolCalls>>
    /\ UNCHANGED <<nameVars, recVars, errVars, clientVars, sseVars, stdioVars, logVars>>

\* What Schema.parse(args) throws on arguments the schema rejects.
ZodError == ErrorOf(<<"i","n","v","a","l","i","d","_","t","y","p","e",":"," ","R","e","q","u","i","r","e","d">>)

\* What the try block of a tool's handler can throw: the Errors of the
\* Rally response, a missing artifact, what the Rally client rejects with
\* and what the transformation throws.
ToolFailures ==
    { ErrorOf(<<"C","a","n","n","o","t"," ","p","a","r","s","e"," ","o","b","j","e","c","t"," ","r","e","f","e","r","e","n","c","e">>),
      ErrorOf(<<"U","s","e","r"," ","S","t","o","r","y"," ","w","i","t","h"," ","I","D"," ","1","2","3","4","5"," ","n","o","t"," ","f","o","u","n","d">>),
      ErrorOf(<<"R","a","l","l","y"," ","c","l","i","e","n","t"," ","i","s"," ","n","o","t"," ","a","u","t","h","e","n","t","i","c","a","t","e","d","."," ","C","a","l","l"," ","a","u","t","h","e","n","t","i","c","a","t","e","(",")"," ","f","i","r","s","t",".">>),
      Value("object", "network_error", TRUE, <<"F","a","i","l","e","d"," ","t","o"," ","g","e","t"," ","U","s","e","r","S","t","o","r","y",":"," ","N","e","t","w","o","r","k"," ","E","r","r","o","r">>),
      Value("object", "rally_api_error", FALSE, << >>),
      Value("string", "", TRUE, <<"t","i","m","e","o","u","t">>),
      Value("object", "", FALSE, << >>),
      Value("bareObject", "", FALSE, << >>),
      NoValue }

\* A call-tool request arrives; the handler runs to its first await or to
\* its end.
CallTool ==
    /\ handlerRegistered
    /\ transportStarted
    /\ tool.pc = "idle"
    /\ toolCalls < MaxToolCalls
    /\ toolCalls' = toolCalls + 1
    /\ \E name \in ToolNames \cup OtherToolNames, args \in {"valid", "invalid"} :
           IF name \notin ToolNames
           THEN /\ toolResult' = outerCatch(ErrorOf(<<"U","n","k","n","o","w","n"," ","t","o","o","l",":"," ">> \o name), name)
                /\ tool' = IdleTool
           ELSE IF args = "invalid"
           THEN /\ toolResult' = outerCatch(ZodError, name)
                /\ tool' = IdleTool
           ELSE /\ tool' = [pc |-> "inTool", name |-> name]
                /\ toolResult' = NotSettled
    /\ UNCHANGED <<transportKind, srvPc, stepsRun, handlerRegistered, transportStarted,
                   initResult>>
    /\ UNCHANGED <<nameVars, recVars, errVars, clientVars, sseVars, stdioVars, logVars>>

\* The try block of the tool's handler completes.
ToolSucceeds ==
    /\ tool.pc = "inTool"
    /\ toolResult' = Settled(tool.name, "resolved", toolSuccess(tool.name), FALSE, NoValue)
    /\ tool' = IdleTool
    /\ UNCHANGED <<transportKind, srvPc, stepsRun, handlerRegistered, transportStarted,
                   initResult, toolCalls>>
    /\ UNCHANGED <<nameVars, recVars, errVars, clientVars, sseVars, stdioVars, logVars>>

\* The try block of the tool's handler throws: its catch block rethrows,
\* then the catch block of the request handler runs.
ToolFails ==
    /\ tool.pc = "inTool"
    /\ \E error \in ToolFailures :
           toolResult' = [outerCatch(innerCatch(error, tool.name), tool.name)
                              EXCEPT !.error = error]
    /\ tool' = IdleTool
    /\ UNCHANGED <<transportKind, srvPc, stepsRun, handlerRegistered, transportStarted,
                   initResult, toolCalls>>
    /\ UNCHANGED <<nameVars, recVars, errVars, clientVars, sseVars, stdioVars, logVars>>

ServerNext ==
    \/ Initialize
    \/ StepSucceeds
    \/ StepFails
    \/ CallTool
    \/ ToolSucceeds
    \/ ToolFails

\* ------------------------------------------------------------------------
\* SSETransport
\* ------------------------------------------------------------------------

ConnectionIds == 1..MaxConnections

\* The x-connection-id header of a POST: 0 when it is missing, an id that
\* generateConnectionId has handed out or will, or an id it never hands out.
Headers == 0..(MaxConnections + 1)

\* The connection table and the response streams, as the operations below
\* change them; threw tells that the last write threw.
Net(conns, streams, wrote, late) ==
    [connections |-> conns, stream |-> streams, written |-> wrote, lateWrites |-> late,
     threw |-> FALSE]

\* connection.response.write(...): it throws on a stream whose client is
\* gone, and a stream that was ended is written to all the same.
write(n, id) ==
    CASE n.stream[id] = "broken" -> [n EXCEPT !.threw = TRUE]
      [] n.stream[id] = "ended" ->
            [n EXCEPT !.written = @ \cup {id}, !.lateWrites = @ \cup {id}, !.threw = FALSE]
      [] OTHER -> [n EXCEPT !.written = @ \cup {id}, !.threw = FALSE]

\* closeConnection(connectionId)
closeConnection(n, id) ==
    IF id \in DOMAIN n.connections
    THEN [n EXCEPT !.connections = [c \in DOMAIN n.connections \ {id} |-> n.connections[c]],
                   !.stream[id] = "ended",
                   !.threw = FALSE]
    ELSE [n EXCEPT !.threw = FALSE]

\* sendSSEMessage writing to the stream whatever the table holds
sendSSEMessageUnchecked(n, id) ==
    LET w == write(n, id)
    IN  IF w.threw THEN closeConnection(n, id) ELSE w

\* sendSSEMessage(connectionId, message)
sendSSEMessage(n, id) ==
    IF id \notin DOMAIN n.connections \/ ~n.connections[id].isAlive THEN n
    ELSE LET w == write(n, id)
         IN  IF w.threw THEN closeConnection(n, id) ELSE w

\* The callback of the ping interval over the connections ids.
RECURSIVE pingSweep(_, _)
pingSweep(n, ids) ==
    IF ids = {} THEN n
    ELSE LET id == CHOOSE x \in ids : TRUE
             after == IF ~n.connections[id].isAlive THEN closeConnection(n, id)
                      ELSE LET w == write(n, id)
                           IN  IF w.threw THEN closeConnection(n, id) ELSE w
         IN  pingSweep(after, ids \ {id})

\* The loop of stop() over the connections.
RECURSIVE closeAll(_, _)
closeAll(n, ids) ==
    IF ids = {} THEN n
    ELSE LET id == CHOOSE x \in ids : TRUE
         IN  closeAll(closeConnection(n, id), ids \ {id})

\* The test of handleMCPMessage that rejects a message whenever the header
\* is missing, and only then
isAdmittedWithAnyId(header, conns) == header # 0

\* The test of handleMCPMessage: connectionId && this.connections.has(connectionId)
isAdmitted(header, conns) == header # 0 /\ header \in DOMAIN conns

Answer(header, status, error, processed) ==
    [header |-> header, status |-> status, error |-> error, processed |-> processed]

NoAnswer == Answer(0, 0, "", FALSE)

\* The state of the transport now, nothing written yet in this step.
NetNow == Net(connections, stream, {}, lateWrites)

\* The step leaves the table and the streams as n.
NetBecomes(n) ==
    /\ connections' = n.connections
    /\ stream' = n.stream
    /\ written' = n.written
    /\ lateWrites' = n.lateWrites

SSEIdle ==
    /\ httpServer = "none"
    /\ pingInterval = FALSE
    /\ connections = << >>
    /\ stream = [id \in ConnectionIds |-> "unopened"]
    /\ written = {}
    /\ lateWrites = {}
    /\ pending = {}
    /\ lastPost = NoAnswer
    /\ posts = 0

\* start(): the server listens and the ping interval is set.
SSEStart ==
    /\ httpServer # "listening"
    /\ httpServer' = "listening"
    /\ pingInterval' = TRUE
    /\ written' = {}
    /\ UNCHANGED <<connections, stream, lateWrites, pending, lastPost, posts>>
    /\ UNCHANGED <<nameVars, recVars, errVars, clientVars, serverVars, stdioVars, logVars>>

\* GET /mcp/sse: handleSSEConnection
SSEConnect ==
    /\ httpServer = "listening"
    /\ \E id \in ConnectionIds :
          /\ stream[id] = "unopened"
          /\ \A other \in ConnectionIds : other < id => stream[other] # "unopened"
          /\ NetBecomes(sendSSEMessage(
                 Net([c \in DOMAIN connections \cup {id} |->
                         IF c = id THEN [isAlive |-> TRUE] ELSE connections[c]],
                     [stream EXCEPT ![id] = "open"], {}, lateWrites), id))
    /\ UNCHANGED <<httpServer, pingInterval, pending, lastPost, posts>>
    /\ UNCHANGED <<nameVars, recVars, errVars, clientVars, serverVars, stdioVars, logVars>>

\* The client of a connection goes away: writes to its stream throw from
\* now on, and the close event is yet to be delivered.
ClientGone ==
    /\ \E id \in ConnectionIds :
          /\ stream[id] = "open"
          /\ stream' = [stream EXCEPT ![id] = "broken"]
    /\ written' = {}
    /\ UNCHANGED <<httpServer, pingInterval, connections, lateWrites, pending, lastPost,
                   posts>>
    /\ UNCHANGED <<nameVars, recVars, errVars, clientVars, serverVars, stdioVars, logVars>>

\* req.on('close') and req.on('error'): closeConnection(connectionId)
CloseEvent ==
    /\ \E id \in ConnectionIds :
          /\ stream[id] = "broken"
          /\ NetBecomes(closeConnection(NetNow, id))
    /\ UNCHANGED <<httpServer, pingInterval, pending, lastPost, posts>>
    /\ UNCHANGED <<nameVars, recVars, errVars, clientVars, serverVars, stdioVars, logVars>>

\* POST /mcp/message: handleMCPMessage up to its await
PostMessage ==
    /\ httpServer = "listening"
    /\ posts < MaxPosts
    /\ posts' = posts + 1
    /\ \E header \in Headers, hasResponse \in BOOLEAN :
          IF isAdmitted(header, connections)
          THEN /\ pending' = pending \cup
                      {[post |-> posts + 1, header |-> header, hasResponse |-> hasResponse]}
               /\ UNCHANGED lastPost
          ELSE /\ lastPost' = Answer(header, 400, "Invalid or missing connection ID", FALSE)
               /\ UNCHANGED pending
    /\ written' = {}
    /\ UNCHANGED <<httpServer, pingInterval, connections, stream, lateWrites>>
    /\ UNCHANGED <<nameVars, recVars, errVars, clientVars, serverVars, stdioVars, logVars>>

\* processMCPMessage resolves: the rest of handleMCPMessage
MessageProcessed ==
    /\ \E m \in pending :
          /\ pending' = pending \ {m}
          /\ NetBecomes(IF m.hasResponse THEN sendSSEMessage(NetNow, m.header) ELSE NetNow)
          /\ lastPost' = Answer(m.header, 200, "", TRUE)
    /\ UNCHANGED <<httpServer, pingInterval, posts>>
    /\ UNCHANGED <<nameVars, recVars, errVars, clientVars, serverVars, stdioVars, logVars>>

\* The ping interval fires.
Ping ==
    /\ pingInterval
    /\ NetBecomes(pingSweep(NetNow, DOMAIN connections))
    /\ UNCHANGED <<httpServer, pingInterval, pending, lastPost, posts>>
    /\ UNCHANGED <<nameVars, recVars, errVars, clientVars, serverVars, stdioVars, logVars>>

\* stop()
SSEStop ==
    /\ pingInterval' = FALSE
    /\ NetBecomes(closeAll(NetNow, DOMAIN connections))
    /\ httpServer' = IF httpServer = "listening" THEN "closed" ELSE httpServer
    /\ UNCHANGED <<pending, lastPost, posts>>
    /\ UNCHANGED <<nameVars, recVars, errVars, clientVars, serverVars, stdioVars, logVars>>

SSENext ==
    \/ SSEStart
    \/ SSEConnect
    \/ ClientGone
    \/ CloseEvent
    \/ PostMessage
    \/ MessageProcessed
    \/ Ping
    \/ SSEStop

\* ------------------------------------------------------------------------
\* StdioTransport
\* ------------------------------------------------------------------------

\* isConnected()
isConnected(t) == t

StdioIdle ==
    /\ transport = FALSE
    /\ stdioStart = "idle"
    /\ stdioStop = "idle"
    /\ lastStart = "none"
    /\ stoppedSince = FALSE
    /\ starts = 0
    /\ successes = 0
    /\ closes = 0
    /\ stopOutcome = "none"

\* start() up to its await: this.transport = new StdioServerTransport()
StdioStart ==
    /\ stdioStart = "idle"
    /\ starts < MaxStarts
    /\ starts' = starts + 1
    /\ transport' = TRUE
    /\ stdioStart' = "connecting"
    /\ UNCHANGED <<stdioStop, lastStart, stoppedSince, successes, closes, stopOutcome>>
    /\ UNCHANGED <<nameVars, recVars, errVars, clientVars, serverVars, sseVars, logVars>>

\* server.connect resolves: start() resolves.
ConnectResolves ==
    /\ stdioStart = "connecting"
    /\ stdioStart' = "idle"
    /\ lastStart' = "resolved"
    /\ stoppedSince' = FALSE
    /\ successes' = successes + 1
    /\ UNCHANGED <<transport, stdioStop, starts, closes, stopOutcome>>
    /\ UNCHANGED <<nameVars, recVars, errVars, clientVars, serverVars, sseVars, logVars>>

\* server.connect rejects: start() rejects with 'Failed to start stdio
\* transport: ...'.
ConnectRejects ==
    /\ stdioStart = "connecting"
    /\ stdioStart' = "idle"
    /\ lastStart' = "rejected"
    /\ stoppedSince' = FALSE
    /\ UNCHANGED <<transport, stdioStop, starts, successes, closes, stopOutcome>>
    /\ UNCHANGED <<nameVars, recVars, errVars, clientVars, serverVars, sseVars, logVars>>

\* stop() up to its await, or to its end when there is no transport
StdioStop ==
    /\ stdioStop = "idle"
    /\ stoppedSince' = TRUE
    /\ IF transport
       THEN /\ transport' = FALSE
            /\ closes' = closes + 1
            /\ stdioStop' = "closing"
            /\ UNCHANGED stopOutcome
       ELSE /\ stopOutcome' = "resolved"
            /\ UNCHANGED <<transport, closes, stdioStop>>
    /\ UNCHANGED <<stdioStart, lastStart, starts, successes>>
    /\ UNCHANGED <<nameVars, recVars, errVars, clientVars, serverVars, sseVars, logVars>>

\* server.close() resolves or rejects, or the timeout rejects: the catch
\* block logs, and stop() resolves.
CloseSettles ==
    /\ stdioStop = "closing"
    /\ stdioStop' = "idle"
    /\ stopOutcome' = "resolved"
    /\ UNCHANGED <<transport, stdioStart, lastStart, stoppedSince, starts, successes,
                   closes>>
    /\ UNCHANGED <<nameVars, recVars, errVars, clientVars, serverVars, sseVars, logVars>>

StdioNext ==
    \/ StdioStart
    \/ ConnectResolves
    \/ ConnectRejects
    \/ StdioStop
    \/ CloseSettles

\* ------------------------------------------------------------------------
\* Logger
\* ------------------------------------------------------------------------

\* Logger.maxLogHistory, 10000 in the source, scaled down.
maxLogHistory == 2

\* The logger the application constructs and the one withCorrelation
\* returns.
Loggers == { "logger", "contextualLogger" }

\* Logger.addToHistory(logEntry) of a logger whose logHistory is the array
\* at address ref: the arrays afterwards and the logger's logHistory.
logAddToHistory(arrays, ref, logEntry) ==
    LET pushed == [arrays EXCEPT ![ref] = Append(@, logEntry)]
    IN  IF Len(pushed[ref]) > maxLogHistory
        THEN [arrays |-> Append(pushed, sliceLast(pushed[ref], maxLogHistory)),
              logHistory |-> Len(pushed) + 1]
        ELSE [arrays |-> pushed, logHistory |-> ref]

\* getLogHistory() without filter: [...this.logHistory]
getLogHistory(arrays, ref) == arrays[ref]

\* new Logger(config)
LoggerInit ==
    /\ logArrays = << << >> >>
    /\ logHistory = [l \in Loggers |-> IF l = "logger" THEN 1 ELSE 0]
    /\ logs = 0

LoggerIdle ==
    /\ logArrays = << >>
    /\ logHistory = [l \in Loggers |-> 0]
    /\ logs = 0

\* logger.withCorrelation(context)
WithCorrelation ==
    /\ logHistory["contextualLogger"] = 0
    /\ logHistory' = [logHistory EXCEPT !["contextualLogger"] = logHistory["logger"]]
    /\ UNCHANGED <<logArrays, logs>>
    /\ UNCHANGED <<nameVars, recVars, errVars, clientVars, serverVars, sseVars, stdioVars>>

\* The log levels that config.level lets through.
LogLevels == { "info", "error" }

\* The entry log() builds: the number stands for its timestamp and message.
LogEntry(n, level, logger) ==
    [n |-> n, level |-> level, correlated |-> (logger = "contextualLogger")]

\* A log call of an enabled level on one of the loggers
Log ==
    /\ logs < MaxLogs
    /\ \E l \in Loggers, level \in LogLevels :
          /\ logHistory[l] # 0
          /\ LET after == logAddToHistory(logArrays, logHistory[l],
                                          LogEntry(logs + 1, level, l))
             IN  /\ logArrays' = after.arrays
                 /\ logHistory' = [logHistory EXCEPT ![l] = after.logHistory]
    /\ logs' = logs + 1
    /\ UNCHANGED <<nameVars, recVars, errVars, clientVars, serverVars, sseVars, stdioVars>>

LoggerNext ==
    \/ WithCorrelation
    \/ Log

vars == <<nameVars, recVars, errVars, clientVars, serverVars, sseVars, stdioVars, logVars>>

InitNames == NamesInit /\ RecIdle /\ ErrIdle /\ ClientIdle /\ ServerIdle /\ SSEIdle /\ StdioIdle /\ LoggerIdle

SpecNames == InitNames /\ [][NamesNext]_vars

InitRecords == NamesIdle /\ RecInit /\ ErrIdle /\ ClientIdle /\ ServerIdle /\ SSEIdle /\ StdioIdle /\ LoggerIdle

SpecRecords == InitRecords /\ [][RecNext]_vars

InitErrors == NamesIdle /\ RecIdle /\ ErrInit /\ ClientIdle /\ ServerIdle /\ SSEIdle /\ StdioIdle /\ LoggerIdle

SpecErrors == InitErrors /\ [][ErrNext]_vars

InitHistory == NamesIdle /\ RecIdle /\ ErrInit /\ ClientIdle /\ ServerIdle /\ SSEIdle /\ StdioIdle /\ LoggerIdle

SpecHistory == InitHistory /\ [][HistoryNext]_vars

InitClient == NamesIdle /\ RecIdle /\ ErrIdle /\ ClientInit /\ ServerIdle /\ SSEIdle /\ StdioIdle /\ LoggerIdle

SpecClient == InitClient /\ [][ClientNext]_vars

InitServer == NamesIdle /\ RecIdle /\ ErrIdle /\ ClientIdle /\ ServerInit /\ SSEIdle /\ StdioIdle /\ LoggerIdle
SpecServer == InitServer /\ [][ServerNext]_vars

InitSSE ==
    NamesIdle /\ RecIdle /\ ErrIdle /\ ClientIdle /\ ServerIdle /\ SSEIdle /\ StdioIdle /\ LoggerIdle
SpecSSE == InitSSE /\ [][SSENext]_vars

InitStdio ==
    NamesIdle /\ RecIdle /\ ErrIdle /\ ClientIdle /\ ServerIdle /\ SSEIdle /\ StdioIdle /\ LoggerIdle
SpecStdio == InitStdio /\ [][StdioNext]_vars

InitLogger ==
    NamesIdle /\ RecIdle /\ ErrIdle /\ ClientIdle /\ ServerIdle /\ SSEIdle /\ StdioIdle
        /\ LoggerInit
SpecLogger == InitLogger /\ [][LoggerNext]_vars


\* ------------------------------------------------------------------------
\* Properties of the field-name conversions
\* ------------------------------------------------------------------------

\* C1: every well-formed external name (the values of the irregular table,
\* synthetic PascalCase names, '_' metadata names, 'c_' custom names)
\* converted to the internal form and back is the name itself.
C1_ExternalRoundTrip ==
    (nmPc = "r2m2r" /\ nmIn \in ExternalVocabulary) => nmBack = nmIn

\* C2: every internal name the system accepts (the keys of the irregular
\* table, the tool-schema fields, 'metadata-' and 'custom-' names) converted
\* to the external form and back is the name itself.
C2_InternalRoundTrip ==
    (nmPc = "m2r2m" /\ nmIn \in InternalVocabulary) => nmBack = nmIn

\* A word boundary lies before position i of s: after a lowercase letter or
\* digit when s[i] is uppercase, or before the last letter of an uppercase
\* run of two or more that a lowercase letter follows.
WordBoundary(s, i) ==
    /\ i \in 2..Len(s)
    /\ IsUpper(s[i])
    /\ \/ IsLower(s[i - 1]) \/ IsDigit(s[i - 1])
       \/ IsUpper(s[i - 1]) /\ i < Len(s) /\ IsLower(s[i + 1])

\* The words of s lowercased and joined with '-'.
RECURSIVE WordSplitFrom(_, _)
WordSplitFrom(s, i) ==
    IF i > Len(s) THEN <<>>
    ELSE (IF WordBoundary(s, i) THEN <<"-">> ELSE <<>>)
             \o <<LowerOf(s[i])>> \o WordSplitFrom(s, i + 1)

WordSplit(s) == WordSplitFrom(s, 1)

ExactlyOneUnderscore(f) == startsWith(f, <<"_">>) /\ ~startsWith(f, <<"_","_">>)

\* The reverse direction of the prefix rule, and the three examples.
PrefixReverseAndExamples ==
    /\ (nmPc = "m2r" /\ startsWith(nmIn, <<"m","e","t","a","d","a","t","a","-">>))
          => nmOut = <<"_">> \o kebabToRallySpecialCase(substring(nmIn, 9))
    /\ (nmPc = "m2r" /\ ~startsWith(nmIn, <<"m","e","t","a","d","a","t","a","-">>) /\ startsWith(nmIn, <<"c","u","s","t","o","m","-">>))
          => nmOut = <<"c","_">> \o kebabToRallySpecialCase(substring(nmIn, 7))
    /\ (nmPc = "r2m" /\ nmIn = <<"_","r","e","f">>) => nmOut = <<"m","e","t","a","d","a","t","a","-","r","e","f">>
    /\ (nmPc = "r2m" /\ nmIn = <<"c","_","F","o","o">>) => nmOut = <<"c","u","s","t","o","m","-","f","o","o">>
    /\ (nmPc = "m2r" /\ nmIn = <<"m","e","t","a","d","a","t","a","-","r","e","f","-","o","b","j","e","c","t","-","u","u","i","d">>) => nmOut = <<"_","r","e","f","O","b","j","e","c","t","U","U","I","D">>

C4_WordSplit ==
    /\ (nmPc = "r2m" /\ ~startsWith(nmIn, <<"_">>) /\ ~startsWith(nmIn, <<"c","_">>))
          => nmOut = WordSplit(nmIn)
    /\ (nmPc = "r2m" /\ nmIn = <<"A","P","I","I","n","t","e","g","r","a","t","i","o","n">>) => nmOut = <<"a","p","i","-","i","n","t","e","g","r","a","t","i","o","n">>
    /\ (nmPc = "r2m" /\ nmIn = <<"F","o","r","m","a","t","t","e","d","I","D">>) => nmOut = <<"f","o","r","m","a","t","t","e","d","-","i","d">>
    /\ (nmPc = "r2m2r" /\ nmIn = <<"A","P","I","I","n","t","e","g","r","a","t","i","o","n">>) => nmBack = <<"A","P","I","I","n","t","e","g","r","a","t","i","o","n">>
    /\ (nmPc = "m2r" /\ nmIn = <<"a","p","i","-","i","n","t","e","g","r","a","t","i","o","n">>) => nmOut = <<"A","P","I","I","n","t","e","g","r","a","t","i","o","n">>

\* APIIntegration has been split into api-integration and converted back.
C4_Witness ==
    /\ nmPc = "r2m2r"
    /\ nmIn = <<"A","P","I","I","n","t","e","g","r","a","t","i","o","n">>
    /\ nmOut = <<"a","p","i","-","i","n","t","e","g","r","a","t","i","o","n">>
    /\ nmBack = <<"A","P","I","I","n","t","e","g","r","a","t","i","o","n">>


\* ------------------------------------------------------------------------
\* Properties of the record transformations
\* ------------------------------------------------------------------------

\* out (in heap h) has the structure of in (in heap h0): the same primitive,
\* or an array of the same length, or an object with the same number of
\* keys, whose elements or values have the structure of in's, in order.
RECURSIVE SameStructure(_, _, _, _)
SameStructure(h0, in, h, out) ==
    IF in.t = "prim" THEN out = in
    ELSE /\ out.t = "ref"
         /\ h[out.a].kind = h0[in.a].kind
         /\ Len(h[out.a].vals) = Len(h0[in.a].vals)
         /\ Len(h[out.a].keys) = Len(h0[in.a].keys)
         /\ \A i \in 1..Len(h0[in.a].vals) :
               SameStructure(h0, h0[in.a].vals[i], h, h[out.a].vals[i])

\* C5: rallyToMcp and mcpToRally return primitives unchanged, for an array
\* an array of the same length of the transformed elements, for an object
\* an object with the same number of keys holding the transformed values,
\* and an empty object or array for an empty one, at every depth.
C5_StructuralPreservation ==
    (recPc = "done" /\ recFn \in {"rallyToMcp", "mcpToRally"})
        => SameStructure(heapAtCall, recArg, heap, recOut)

\* The objects and arrays reachable from value v in heap h.
RECURSIVE Reachable(_, _)
Reachable(h, v) ==
    IF v.t = "prim" THEN {}
    ELSE {v.a} \cup UNION { Reachable(h, h[v.a].vals[i]) : i \in 1..Len(h[v.a].vals) }

\* Every object and array that existed at the call is as it was.
InputUnchanged ==
    /\ Len(heap) >= Len(heapAtCall)
    /\ \A a \in 1..Len(heapAtCall) : heap[a] = heapAtCall[a]

\* No object or array of the output is one of the input.
NothingShared ==
    Reachable(heap, recOut) \cap Reachable(heapAtCall, recArg) = {}

\* C6 as stated: rallyToMcp, mcpToRally and transformFieldNames leave their
\* input as it was, and no object or array of the output is the same object
\* as one of the input.
C6_NoMutationNoSharing_AsStated ==
    recPc = "done" => (InputUnchanged /\ NothingShared)

\* C6 amended: the three functions leave their input as it was; no object
\* or array of the output of rallyToMcp and mcpToRally is one of the input;
\* transformFieldNames returns a new object whose values are the input's
\* own values (a nested object or array is shared, not copied).
C6_NoMutation ==
    recPc = "done" =>
        /\ InputUnchanged
        /\ recFn \in {"rallyToMcp", "mcpToRally"} => NothingShared
        /\ recFn = "transformFieldNames" =>
              /\ recOut.t = "ref"
              /\ recOut.a \notin Reachable(heapAtCall, recArg)
              /\ \A i \in 1..Len(heap[recOut.a].vals) :
                    \E j \in 1..Len(heapAtCall[recArg.a].vals) :
                        heap[recOut.a].vals[i] = heapAtCall[recArg.a].vals[j]

\* transformFieldNames has returned an object that holds a nested object or
\* array of its input.
C6_Witness ==
    /\ recPc = "done"
    /\ recFn = "transformFieldNames"
    /\ Reachable(heap, recOut) \cap Reachable(heapAtCall, recArg) # {}

\* ------------------------------------------------------------------------
\* Error classifier: claims
\* ------------------------------------------------------------------------

Handled == calls > 0

\* Reading the raw failure fails: an Error whose message or name is no
\* string, a flagged object whose response has no status, a value that has
\* no conversion to a string.
InspectionFails(error) ==
    \/ error.kind = "Error" /\ (~error.message.str \/ ~error.name.str)
    \/ error.kind = "axiosObject" /\ error.resp = "noStatus"
    \/ error.kind = "bareObject"

\* C7: handleError never throws: for every raw failure and every context it
\* returns an MCPError, and when reading the raw failure fails the MCPError
\* has type unexpected_error.
C7_NeverThrows ==
    Handled =>
        /\ ~lastResult.threw
        /\ InspectionFails(lastError) => lastResult.error.type = "unexpected_error"

\* C8: a raw failure that carries a response whose status is in the status
\* table is given the category of that status, Error instance or not,
\* whatever its name and message hold.
C8_StatusPrecedence ==
    (Handled /\ lastError.resp = "status" /\ HasStatusMapping(lastError.status)) =>
        /\ ~lastResult.threw
        /\ lastResult.error.type = StatusMapping(lastError.status).type

\* The status table as the specification states it.
StatedCategory ==
    [s \in {401, 403, 404, 422, 429, 500, 502, 503, 504} |->
        CASE s = 401 -> "authentication_error"
          [] s = 403 -> "permission_error"
          [] s = 404 -> "not_found_error"
          [] s = 422 -> "validation_error"
          [] s = 429 -> "rally_rate_limit"
          [] s = 500 -> "rally_server_error"
          [] s \in {502, 503} -> "rally_service_unavailable"
          [] s = 504 -> "connection_timeout"]

\* The category handleError gives, in the current state, to the last raw
\* failure with its status replaced by s.
CategoryWithStatus(s) ==
    dispatch([lastError EXCEPT !.status = s],
             errorContextOf(lastContext, 0), errorCounts).error.type

\* C9: a failure that carries a response is classified by the status
\* table; a status of 500 or more outside the table and a status of 400 to
\* 499 outside the table are given two different categories.
C9_StatusTable ==
    (Handled /\ lastError.resp = "status" /\ lastError.status >= 400) =>
        /\ ~lastResult.threw
        /\ lastError.status \in DOMAIN StatedCategory =>
              lastResult.error.type = StatedCategory[lastError.status]
        /\ (lastError.status \notin DOMAIN StatedCategory /\ lastError.status >= 500) =>
              \A s \in Statuses :
                  (s \notin DOMAIN StatedCategory /\ s >= 400 /\ s < 500) =>
                      lastResult.error.type # CategoryWithStatus(s)

\* C10: a failure that carries status 401 is returned with severity
\* critical and recovery strategy user_intervention, whatever path
\* classified it.
C10_Status401 ==
    (Handled /\ lastError.resp = "status" /\ lastError.status = 401) =>
        /\ ~lastResult.threw
        /\ lastResult.error.severity = "critical"
        /\ lastResult.error.recovery.strategy = "user_intervention"

\* C11: a failure that carries status 429, whatever the body of its
\* response, is returned as rally_rate_limit with strategy
\* retry_with_backoff and a maxRetries that is present and positive.
C11_RateLimit ==
    (Handled /\ lastError.resp = "status" /\ lastError.status = 429) =>
        /\ ~lastResult.threw
        /\ lastResult.error.type = "rally_rate_limit"
        /\ lastResult.error.recovery.strategy = "retry_with_backoff"
        /\ lastResult.error.recovery.maxRetries > 0

\* What handleError gives, in the current state, to another raw failure.
ResultFor(error) == dispatch(error, errorContextOf(lastContext, 0), errorCounts)

\* C12: the message of a returned record is fixed by its category: it never
\* holds the raw message, and every failure of the same category, whatever
\* path classified it, gets the same message.
C12_FixedMessages ==
    (Handled /\ ~lastResult.threw) =>
        /\ ~lastResult.error.message.withRaw
        /\ \A other \in RawFailures :
              (~ResultFor(other).threw
                    /\ ResultFor(other).error.type = lastResult.error.type)
                  => ResultFor(other).error.message = lastResult.error.message

\* ------------------------------------------------------------------------
\* Error history: claims
\* ------------------------------------------------------------------------

Min(a, b) == IF a < b THEN a ELSE b

\* The last n elements of a sequence (n at most its length).
LastOf(seq, n) == SubSeq(seq, Len(seq) - n + 1, Len(seq))

IsSuffix(s, t) == Len(s) <= Len(t) /\ s = LastOf(t, Len(s))

\* A record without its resolution fields.
Unresolved(rec) == [rec EXCEPT !.resolvedBy = "", !.resolutionTime = ""]

\* The stored records as handleError returned them.
StoredAsReturned == [i \in 1..Len(errorHistory) |-> Unresolved(errorHistory[i])]

\* C13: with aggregation enabled and any maxErrorHistory >= 0, the history
\* holds at most maxErrorHistory records, and they are the most recently
\* handled ones in arrival order.
C13_BoundedHistory ==
    config.enableErrorAggregation =>
        /\ Len(errorHistory) <= config.maxErrorHistory
        /\ StoredAsReturned = LastOf(handled, Min(config.maxErrorHistory, Len(handled)))

\* C14: the record handleError returns carries a defined, non-empty
\* correlationId: the caller's when the context supplies one, and a freshly
\* generated one when the context is omitted, has no correlationId key, or
\* has the key with the value undefined.
C14_CorrelationId ==
    (Handled /\ ~lastResult.threw) =>
        LET id == lastResult.error.context.correlationId
        IN  /\ id # Undefined
            /\ id # EmptyString
            /\ lastContext = "callerId" => id = CallerId
            /\ lastContext \in {"omitted", "noCorrelationId", "undefinedCorrelationId"}
                  => id = NewUuid(uuidCount - 1)

\* C15: a stored record changes only by resolveError.  A handleError call
\* keeps the earlier records it does not evict as they are; getErrorMetrics
\* changes nothing; resolveError(id, by) changes only resolvedBy and
\* resolutionTime, only of a record whose correlationId is id, and nothing
\* when no record has that id.
C15_RecordsImmutable ==
    [][ /\ lastCall'.op = "handleError" =>
              \/ errorHistory' = errorHistory
              \/ IsSuffix(errorHistory', Append(errorHistory, lastResult'.error))
        /\ lastCall'.op = "getErrorMetrics" => errorHistory' = errorHistory
        /\ lastCall'.op = "resolveError" =>
              /\ Len(errorHistory') = Len(errorHistory)
              /\ \A i \in 1..Len(errorHistory) :
                    /\ Unresolved(errorHistory'[i]) = Unresolved(errorHistory[i])
                    /\ errorHistory'[i] # errorHistory[i] =>
                          errorHistory[i].context.correlationId = lastCall'.id
              /\ (\A i \in 1..Len(errorHistory) :
                      errorHistory[i].context.correlationId # lastCall'.id)
                    => errorHistory' = errorHistory
      ]_vars

\* resolveError has marked one of two stored records.
C15_Witness ==
    /\ lastCall.op = "resolveError"
    /\ \E i, j \in 1..Len(errorHistory) :
          /\ errorHistory[i].resolvedBy = "operator"
          /\ errorHistory[i].context.correlationId = lastCall.id
          /\ errorHistory[j].resolvedBy = ""

\* For each category the counter is the number of handleError calls that
\* returned it since the last clearErrorHistory.
CountersMatch ==
    /\ DOMAIN errorCounts \subseteq MCPErrorType
    /\ \A t \in MCPErrorType :
          LET IsOfType(e) == e.type = t
          IN  getErrorCount(errorCounts, t) = CountOf(handled, IsOfType)

\* Every returned record is stored at most once, in arrival order, and the
\* last maxErrorHistory of them are stored.
RecentStoredOnce ==
    /\ IsSuffix(StoredAsReturned, handled)
    /\ Len(errorHistory) >= Min(config.maxErrorHistory, Len(handled))

\* C16 as stated: in every interleaving of the operations in flight no
\* update is lost: the counters match the completed calls and every
\* completed call's record is in the history once, subject to the bound.
C16_NoLostUpdate_AsStated == CountersMatch /\ RecentStoredOnce

\* C16: in every interleaving of the operations in flight the counters match
\* the completed calls; with aggregation enabled every completed call's
\* record is in the history once, subject to the bound, and with aggregation
\* disabled the history stays empty.
C16_NoLostUpdate ==
    /\ CountersMatch
    /\ config.enableErrorAggregation => RecentStoredOnce
    /\ ~config.enableErrorAggregation => errorHistory = << >>

\* Two operations were in flight together and both failed into the same
\* category while a third call is still to come or not.
C16_Witness ==
    /\ config.enableErrorAggregation
    /\ Len(handled) = 2
    /\ handled[1].type = handled[2].type
    /\ handled[1].context.operation # handled[2].context.operation
    /\ errorCounts[handled[1].type] = 2
    /\ errorHistory # << >>

\* ------------------------------------------------------------------------
\* RallyClient: claims
\* ------------------------------------------------------------------------

\* C17: isAuthenticatedClient() is true exactly when the authenticate call
\* that completed last succeeded (false at first, false after a failed one
\* even if an earlier one succeeded); a create, get, update or query called
\* while it is false rejects with 'Rally client is not authenticated. Call
\* authenticate() first.' and sends no HTTP request.
C17_AuthenticationGate ==
    /\ [](isAuthenticated <=> lastAuthenticate = "succeeded")
    /\ [][ \A id \in CallIds :
              (/\ clientCalls[id].phase = "idle"
               /\ clientCalls'[id].method \in ClientMethods
               /\ ~isAuthenticated)
                  => /\ clientCalls'[id].phase = "rejected"
                     /\ clientResult'.id = id
                     /\ clientResult'.outcome = "rejected"
                     /\ clientResult'.error = NotAuthenticated
                     /\ httpRequests' = httpRequests
         ]_vars

\* An authenticate call succeeded, a later one failed, and an operation
\* called after that was turned away.
C17_Witness ==
    /\ ~isAuthenticated
    /\ lastAuthenticate = "failed"
    /\ \E i \in CallIds :
          clientCalls[i].method = "authenticate" /\ clientCalls[i].phase = "resolved"
    /\ clientResult.method \in ClientMethods
    /\ clientResult.error = NotAuthenticated

\* The category the client gives to a status.
ClientCategory(status) ==
    CASE status = 401 -> "authentication_error"
      [] status = 403 -> "permission_error"
      [] status = 404 -> "not_found_error"
      [] status = 422 -> "validation_error"
      [] OTHER -> "rally_api_error"

\* C18: a rejected HTTP call whose error carries a response with status s,
\* AxiosError instance or plain object flagged isAxiosError, makes the
\* operation reject with the category of s and rallyErrorCode s; an error
\* with code ECONNREFUSED or ENOTFOUND gives network_error.
C18_ErrorTranslation ==
    (clientResult.outcome = "rejected"
        /\ clientResult.raw.kind \in {"AxiosError", "axiosObject"}) =>
        /\ clientResult.raw.status # 0 =>
              /\ clientResult.error.type = ClientCategory(clientResult.raw.status)
              /\ clientResult.error.hasRallyErrorCode
              /\ clientResult.error.rallyErrorCode = clientResult.raw.status
        /\ clientResult.raw.code \in {"ECONNREFUSED", "ENOTFOUND"} =>
              clientResult.error.type = "network_error"

StartsWith(seq, prefix) ==
    Len(prefix) <= Len(seq) /\ SubSeq(seq, 1, Len(prefix)) = prefix

\* The steps of initialize that succeeded
StepsSucceeded ==
    { stepsRun[i] : i \in 1..(IF srvPc = "initialized" THEN Len(stepsRun)
                              ELSE Len(stepsRun) - 1) }

\* The message the failing step threw or rejected with, if it has one
StepMessage(error) ==
    IF error.kind = "string" \/ error.hasMessage THEN error.message ELSE << >>

IsErrorResponse(response, name) ==
    /\ response.isError = TRUE
    /\ Len(response.content) = 1
    /\ response.content[1].type = "text"
    /\ StartsWith(response.content[1].text, <<"E","r","r","o","r"," ","e","x","e","c","u","t","i","n","g"," ">> \o name \o <<":"," ">>)

\* C20: the call-tool request handler never rejects: it resolves with the
\* tool's result or, when input validation, the Rally client or the
\* transformation fails, with a response that has isError = true and one
\* text item starting with 'Error executing <name>: '; for an unknown tool
\* name this text contains 'Unknown tool: <name>'.
C20_HandlerNeverRejects ==
    toolResult # NotSettled =>
        /\ toolResult.outcome = "resolved"
        /\ IF toolResult.thrown
           THEN IsErrorResponse(toolResult.response, toolResult.name)
           ELSE toolResult.response = toolSuccess(toolResult.name)
        /\ toolResult.name \notin ToolNames =>
               /\ IsErrorResponse(toolResult.response, toolResult.name)
               /\ Contains(toolResult.response.content[1].text,
                           <<"U","n","k","n","o","w","n"," ","t","o","o","l",":"," ">> \o toolResult.name)

C20_Witness ==
    /\ toolResult.thrown
    /\ toolResult.error.kind = "bareObject"
    /\ toolResult.outcome = "resolved"
    /\ IsErrorResponse(toolResult.response, toolResult.name)

\* A kebab name: segments of lower-case letters and digits, none empty,
\* joined by '-'
IsKebab(s) ==
    /\ s # << >>
    /\ \A i \in 1..Len(s) : IsLower(s[i]) \/ IsDigit(s[i]) \/ s[i] = "-"
    /\ s[1] # "-" /\ s[Len(s)] # "-"
    /\ \A i \in 1..(Len(s) - 1) : ~(s[i] = "-" /\ s[i + 1] = "-")

\* The name split on '-', the first character of each segment in upper
\* case, the rest as written, the segments concatenated
RECURSIVE StandardPascalFrom(_, _)
StandardPascalFrom(s, i) ==
    IF i > Len(s) THEN << >>
    ELSE IF s[i] = "-" THEN StandardPascalFrom(s, i + 1)
    ELSE IF i = 1 \/ s[i - 1] = "-" THEN <<UpperOf(s[i])>> \o StandardPascalFrom(s, i + 1)
    ELSE <<s[i]>> \o StandardPascalFrom(s, i + 1)

HasTableEntry(s) == \E i \in 1..Len(specialCases) : specialCases[i][1] = s

\* C22: for a kebab name without the metadata- or custom- prefix,
\* mcpFieldToRally returns the target of the irregular-mapping table when
\* the name has an entry there, and otherwise the standard PascalCase
\* reconstruction, which contains no '-'.
C22_TableThenGeneric ==
    (nmPc = "m2r" /\ IsKebab(nmIn)
         /\ ~startsWith(nmIn, <<"m","e","t","a","d","a","t","a","-">>) /\ ~startsWith(nmIn, <<"c","u","s","t","o","m","-">>)) =>
        IF HasTableEntry(nmIn)
        THEN \E i \in 1..Len(specialCases) :
                 specialCases[i][1] = nmIn /\ nmOut = specialCases[i][2]
        ELSE /\ nmOut = StandardPascalFrom(nmIn, 1)
             /\ \A i \in 1..Len(nmOut) : nmOut[i] # "-"

\* C28: two distinct external field names never convert to the same
\* internal name: no other name of the external vocabulary converts to what
\* rallyFieldToMcp returned for an external name.
C28_NoKeyCollision ==
    (nmPc = "r2m" /\ nmIn \in ExternalVocabulary) =>
        \A other \in ExternalVocabulary :
            other # nmIn => rallyFieldToMcp(other) # nmOut

\* C30: for every entry of getFieldMappings(), rallyFieldToMcp of its
\* rallyField is its mcpField and mcpFieldToRally of its mcpField is its
\* rallyField, and validateTransformation accepts the entry in both
\* directions.
C30_PublishedTableAgrees ==
    \A m \in getFieldMappings :
        /\ (nmPc = "r2m" /\ nmIn = m[1]) =>
               /\ nmOut = m[2]
               /\ validateTransformation(m[1], m[2], "rallyToMcp")
        /\ (nmPc = "m2r" /\ nmIn = m[2]) =>
               /\ nmOut = m[1]
               /\ validateTransformation(m[2], m[1], "mcpToRally")

\* The network-failure patterns as the claim states them, in order.
StatedPatterns ==
    << [words |-> {"timeout", "etimedout"}, type |-> "connection_timeout"],
       [words |-> {"enotfound", "dns"}, type |-> "dns_resolution_error"],
       [words |-> {"econnrefused", "econnreset"}, type |-> "network_error"],
       [words |-> {"tls", "certificate"}, type |-> "ssl_certificate_error"] >>

MatchesStated(error, i) ==
    test(StatedPatterns[i].words, error.message) \/ test(StatedPatterns[i].words, error.code)

\* C23: a failure without response whose error code or message matches a
\* network-failure pattern is given the category of the first matching
\* pattern, before the substring checks of the generic step (so a message
\* with 'validation' and 'timeout' is a connection_timeout), and by its code
\* alone when the message matches no pattern.
C23_NetworkPatternStep ==
    (Handled /\ lastError.kind \in {"Error", "axiosObject"} /\ lastError.resp = "none"
         /\ \E i \in 1..Len(StatedPatterns) : MatchesStated(lastError, i)) =>
        LET first == CHOOSE i \in 1..Len(StatedPatterns) :
                         /\ MatchesStated(lastError, i)
                         /\ \A j \in 1..(i - 1) : ~MatchesStated(lastError, j)
        IN  /\ ~lastResult.threw
            /\ lastResult.error.type = StatedPatterns[first].type

InNameOrMessage(error, words) ==
    \E w \in words : includes(error.name, w) \/ includes(error.message, w)

\* C24: an Error without response that matches no network pattern is a
\* validation_error when its name or message contains 'validation', an
\* authentication_error when it contains 'authentication' or 'unauthorized',
\* a permission_error when it contains 'permission' or 'forbidden', and an
\* internal_error otherwise; a thrown value that is no error is an
\* unexpected_error.
C24_GenericExceptionStep ==
    /\ (Handled /\ lastError.kind = "Error" /\ lastError.resp = "none"
            /\ lastError.message.str /\ lastError.name.str
            /\ \A i \in 1..Len(NETWORK_ERROR_PATTERNS) :
                   /\ ~test(NETWORK_ERROR_PATTERNS[i].pattern, lastError.message)
                   /\ ~test(NETWORK_ERROR_PATTERNS[i].pattern, lastError.name)
                   /\ ~test(NETWORK_ERROR_PATTERNS[i].pattern, lastError.code)) =>
           /\ ~lastResult.threw
           /\ lastResult.error.type =
                  IF InNameOrMessage(lastError, {"validation"}) THEN "validation_error"
                  ELSE IF InNameOrMessage(lastError, {"authentication", "unauthorized"})
                  THEN "authentication_error"
                  ELSE IF InNameOrMessage(lastError, {"permission", "forbidden"})
                  THEN "permission_error"
                  ELSE "internal_error"
    /\ (Handled /\ lastError.kind \in {"null", "string", "plainObject"}) =>
           /\ ~lastResult.threw
           /\ lastResult.error.type = "unexpected_error"

RECURSIVE SumOver(_, _)
SumOver(counts, types) ==
    IF types = {} THEN 0
    ELSE LET t == CHOOSE x \in types : TRUE
         IN  counts[t] + SumOver(counts, types \ {t})

\* The sum of the per-category counters
CounterSum(counts) == SumOver(counts, DOMAIN counts)

\* C29: every handleError call adds exactly one to the counter of the
\* category it returns and changes no other counter, so that the sum of the
\* counters is the number of handleError calls since the last
\* clearErrorHistory; resolveError and getErrorMetrics change no counter;
\* the history is never longer than that sum, is reported as totalErrors,
\* and stays empty while aggregation is disabled; clearErrorHistory empties
\* the history and the counters.
C29_CountersAndHistory ==
    /\ [](/\ Len(errorHistory) <= CounterSum(errorCounts)
          /\ ~config.enableErrorAggregation => Len(errorHistory) = 0)
    /\ [][/\ lastCall'.op = "handleError" =>
                /\ CounterSum(errorCounts') = CounterSum(errorCounts) + 1
                /\ ~lastResult'.threw
                /\ \A t \in MCPErrorType :
                       getErrorCount(errorCounts', t) =
                           getErrorCount(errorCounts, t)
                               + (IF t = lastResult'.error.type THEN 1 ELSE 0)
          /\ lastCall'.op \in {"resolveError", "getErrorMetrics"} =>
                /\ errorCounts' = errorCounts
                /\ Len(errorHistory') = Len(errorHistory)
          /\ lastCall'.op = "getErrorMetrics" =>
                metrics'.totalErrors = Len(errorHistory')
          /\ lastCall'.op = "clearErrorHistory" =>
                errorHistory' = << >> /\ errorCounts' = << >>]_vars

\* ------------------------------------------------------------------------
\* SSETransport: claims
\* ------------------------------------------------------------------------

C26_ConnectionCleanup ==
    /\ \A id \in DOMAIN connections :
           connections[id].isAlive /\ stream[id] \in {"open", "broken"}
    /\ \A id \in ConnectionIds : stream[id] = "ended" => id \notin DOMAIN connections
    /\ lateWrites = {}
    /\ httpServer = "closed" => connections = << >> /\ ~pingInterval

\* A message with a response was admitted, its connection was closed, and
\* its processing is still to complete.
C26_Witness ==
    \E m \in pending :
        /\ m.hasResponse
        /\ stream[m.header] = "ended"
        /\ m.header \notin DOMAIN connections

\* ------------------------------------------------------------------------
\* StdioTransport: claims
\* ------------------------------------------------------------------------

\* C25: whenever no start() is in progress, isConnected() is true exactly
\* when the start() that completed last resolved and stop() has not been
\* called since (so it is false before the first start, after a start()
\* that rejected and after stop()); stop() never rejects, and the server is
\* closed at most once for each start() that resolved.
C25_ConnectionState ==
    /\ stdioStart = "idle" =>
           (isConnected(transport) <=> (lastStart = "resolved" /\ ~stoppedSince))
    /\ stopOutcome # "rejected"
    /\ closes <= successes

\* ------------------------------------------------------------------------
\* Logger: claims
\* ------------------------------------------------------------------------

\* C27: the logger withCorrelation returned and the logger it was created
\* from share one history: after any sequence of log calls on either, also
\* beyond maxLogHistory entries, getLogHistory() returns the same entries on
\* both, and at most maxLogHistory of them.
C27_SharedHistory ==
    logHistory["contextualLogger"] # 0 =>
        /\ getLogHistory(logArrays, logHistory["logger"])
               = getLogHistory(logArrays, logHistory["contextualLogger"])
        /\ \A l \in Loggers : Len(getLogHistory(logArrays, logHistory[l])) <= maxLogHistory

====
